---- MODULE Spec2Model ----
(***************************************************************************)
(* A model of the ait repository: the Explorer that learns the finite     *)
(* state machine of a system under test (ait/explorer.py), the state      *)
(* graph it fills (ait/graph_wrapper.py, ait/utils.py) and the two        *)
(* coverage strategies over that graph (ait/strategy/edge_cover.py,       *)
(* ait/strategy/node_cover.py).                                           *)
(***************************************************************************)
EXTENDS Integers, Sequences, FiniteSets, Bags, TLC

VARIABLES
    sut,            \* the system under test: its state and its transition table
    event_list,     \* Explorer._event_list: the event names, in dict order
    state_matrix,   \* Explorer._state_matrix: name -> (event name -> target)
    state_machine,  \* GraphWrapper._graph: vertices and edges, in index order
    current_state,  \* the state name explore() and _discover() work on
    path,           \* the arrows _execute_path still has to fire
    generation,     \* explore()'s loop counter
    warnings,       \* how often explore() logged that the limit is exceeded
    validators,     \* Explorer._validators: the transitions they reject
    pc,             \* where the Explorer is
    err,            \* the exception raised, "none" if none
    committed,      \* history: the transitions _set_transition committed
    fired,          \* history: how often _discover fired each (state, event)
    reentry,        \* history: the outside calls of _discover: state, its row then
    nav,            \* history: the latest call of _go_to_nearest_immature_state
    calls,          \* history: the add_node and add_arc calls made from outside
    lookup,         \* the latest call made from outside: arguments and outcome
    compared,       \* the latest comparison of arrows: operands and outcomes
    io,             \* the dictionaries handed to FsmImporter and those exported
    strategy,       \* which strategy is travelling, and its start vertex
    graph,          \* the strategy's working copy of the graph
    paths,          \* Strategy._paths
    stack,          \* EdgeCover._dfs: the call stack of (current, incoming_edge)
    eul,            \* EdgeCover: the working copy as eulerize left it
    nc              \* NodeCover: unvisited vids, current vid, path cache

\* no call of add_node or add_arc yet
NoCalls == [n |-> 0, skipped |-> 0, nodes |-> {}, arcs |-> {}, unique |-> TRUE]

exVars == <<sut, event_list, state_matrix, current_state, path, generation, warnings, validators,
            committed, fired, reentry, nav, calls, lookup, compared, io>>
stVars == <<strategy, graph, paths, stack, eul, nc>>
vars == <<sut, event_list, state_matrix, state_machine, current_state, path,
          generation, warnings, validators, pc, err, committed, fired, reentry, nav, calls, lookup,
          compared, io, strategy, graph, paths,
          stack, eul, nc>>

----------------------------------------------------------------------------
(* Bounds of the model.                                                    *)

\* the number of distinct states the generic SUT may have
MaxStates == 3
\* the number of edges a graph handed to a strategy may have
MaxEdges == 4
\* the number of vertices a graph handed to a strategy may have
MaxNodes == 3
\* the number of parallel edges between two vertices of such a graph
MaxParallel == 2
\* the number of copies of an edge tried when looking for a way to balance
MaxDup == 2
MaxCalls == 3
ChainLen == 10
MaxEulerEdges == 5
\* the number of vertices of the larger graphs handed to NodeCover
MaxCoverNodes == 4

----------------------------------------------------------------------------
(* Values.                                                                 *)

None == "None"
Unset == "Unset"
Undefined == "Undefined"

Range(s) == {s[i] : i \in DOMAIN s}

Min(S) == CHOOSE x \in S : \A y \in S : x <= y

Max(S) == CHOOSE x \in S : \A y \in S : y <= x

RECURSIVE Reverse(_)
Reverse(s) == IF s = <<>> THEN <<>> ELSE Append(Reverse(Tail(s)), Head(s))

\* Arrow(tail, head, name)
Arrow(t, h, n) == [tail |-> t, head |-> h, name |-> n]

\* str.__lt__: a string is the sequence of its code points; the order is by
\* the first difference, a proper prefix first
RECURSIVE StrLt(_, _)
StrLt(x, y) ==
    IF y = <<>> THEN FALSE
    ELSE IF x = <<>> THEN TRUE
    ELSE IF Head(x) # Head(y) THEN Head(x) < Head(y)
    ELSE StrLt(Tail(x), Tail(y))

\* Arrow.__eq__ on two arrows
ArrowEq(a, b) == a.tail = b.tail /\ a.head = b.head /\ a.name = b.name

\* __lt__ without the test self.head > other.head
ArrowLtNoHeadGreater(a, b) ==
    IF StrLt(a.tail, b.tail) THEN TRUE
    ELSE IF StrLt(b.tail, a.tail) THEN FALSE
    ELSE IF StrLt(a.head, b.head) THEN TRUE
    ELSE IF StrLt(a.name, b.name) THEN TRUE
    ELSE FALSE

\* Arrow.__lt__ on two arrows
ArrowLt(a, b) ==
    IF StrLt(a.tail, b.tail) THEN TRUE
    ELSE IF StrLt(b.tail, a.tail) THEN FALSE
    ELSE IF StrLt(a.head, b.head) THEN TRUE
    ELSE IF StrLt(b.head, a.head) THEN FALSE
    ELSE IF StrLt(a.name, b.name) THEN TRUE
    ELSE FALSE

\* State.is_valid: InvalidState is the only state that is not valid
IsValid(s) == s # "invalid"

----------------------------------------------------------------------------
(* The graph: igraph.Graph(directed=True) behind GraphWrapper.  vs is the  *)
(* vertex sequence (names, by vertex id), es the edge sequence (by edge    *)
(* id); an edge carries its name and the transition result attached to it. *)

EmptyGraph == [vs |-> <<>>, es |-> <<>>]

Edge(a, result) ==
    [tail |-> a.tail, head |-> a.head, name |-> a.name, result |-> result]

EdgeToArrow(e) == Arrow(e.tail, e.head, e.name)

\* GraphWrapper.nodes, GraphWrapper.arcs
Nodes(G) == Range(G.vs)
Arcs(G) == [i \in DOMAIN G.es |-> EdgeToArrow(G.es[i])]

\* GraphWrapper.has_node
HasNode(G, name) == name \in Range(G.vs)

\* add_node without the has_node test
AddNodeAgain(G, name) == [G EXCEPT !.vs = Append(@, name)]

\* GraphWrapper.add_node
AddNode(G, name) ==
    IF HasNode(G, name) THEN G ELSE [G EXCEPT !.vs = Append(@, name)]

\* GraphWrapper.get_arcs: the ids of the edges matching the arrow, "" a wildcard
GetArcs(G, a) ==
    IF (a.tail # "" /\ ~HasNode(G, a.tail)) \/ (a.head # "" /\ ~HasNode(G, a.head))
    THEN {}
    ELSE {i \in DOMAIN G.es :
            /\ a.tail = "" \/ G.es[i].tail = a.tail
            /\ a.head = "" \/ G.es[i].head = a.head
            /\ a.name = "" \/ G.es[i].name = a.name}

\* add_arc with the uniqueness check on the end points alone
AddArcByEndPoints(G, a, result, unique) ==
    IF unique /\ GetArcs(G, Arrow(a.tail, a.head, "")) # {}
    THEN G
    ELSE LET G2 == AddNode(AddNode(G, a.tail), a.head)
         IN  [G2 EXCEPT !.es = Append(@, Edge(a, result))]

\* GraphWrapper.add_arc
AddArc(G, a, result, unique) ==
    IF unique /\ GetArcs(G, a) # {}
    THEN G
    ELSE LET G2 == AddNode(AddNode(G, a.tail), a.head)
         IN  [G2 EXCEPT !.es = Append(@, Edge(a, result))]

\* the neighbours of a vertex, as igraph's adjacency lists give them
Neighbors(G, v, mode) ==
    {G.es[i].head : i \in {j \in DOMAIN G.es :
                        mode \in {"out", "all"} /\ G.es[j].tail = v}}
    \cup
    {G.es[i].tail : i \in {j \in DOMAIN G.es :
                        mode \in {"in", "all"} /\ G.es[j].head = v}}

\* igraph Graph.bfs: the queue is order[i..]; the unvisited neighbours of the
\* vertex taken from it are appended in vertex id order
RECURSIVE BfsVisit(_, _, _, _)
BfsVisit(G, mode, order, i) ==
    IF i > Len(order)
    THEN order
    ELSE LET nb == Neighbors(G, order[i], mode)
             new == SelectSeq(G.vs, LAMBDA n : n \in nb /\ n \notin Range(order))
         IN  BfsVisit(G, mode, order \o new, i + 1)

\* GraphWrapper.bfs: self._graph.bfs(name)[0]; igraph's bfs(vid, mode="all")
\* follows every edge in both directions unless a mode is given
Bfs(G, name) ==
    IF ~HasNode(G, name) THEN <<>> ELSE BfsVisit(G, "all", <<name>>, 1)

\* igraph get_shortest_path(mode="out"): breadth first from the source; a
\* vertex's parent edge is the first edge that reaches it
RECURSIVE SpVisit(_, _, _, _)
SpVisit(G, order, parent, i) ==
    IF i > Len(order)
    THEN parent
    ELSE LET u == order[i]
             reach(n) == {k \in DOMAIN G.es : G.es[k].tail = u /\ G.es[k].head = n}
             new == SelectSeq(G.vs, LAMBDA n : n \notin Range(order) /\ reach(n) # {})
             parent2 == [n \in Range(G.vs) |->
                            IF n \in Range(new) THEN Min(reach(n)) ELSE parent[n]]
         IN  SpVisit(G, order \o new, parent2, i + 1)

RECURSIVE PathTo(_, _, _, _)
PathTo(G, parent, s, t) ==
    IF t = s
    THEN <<>>
    ELSE LET e == G.es[parent[t]]
         IN  Append(PathTo(G, parent, s, e.tail), EdgeToArrow(e))

\* utils.shortest_path called with any names: igraph's get_shortest_path
\* raises ValueError for a name that is no vertex, and nothing catches it
ShortestPathCall(G, s, t) ==
    IF ~HasNode(G, s) \/ ~HasNode(G, t)
    THEN [err |-> "ValueError", path |-> <<>>]
    ELSE LET parent == SpVisit(G, <<s>>, [n \in Range(G.vs) |-> 0], 1)
         IN  [err |-> "none",
              path |-> IF s = t \/ parent[t] = 0 THEN <<>>
                       ELSE PathTo(G, parent, s, t)]

\* utils.shortest_path: the arrows of a shortest path, [] if there is none
ShortestPath(G, s, t) ==
    LET parent == SpVisit(G, <<s>>, [n \in Range(G.vs) |-> 0], 1)
    IN  IF s = t \/ parent[t] = 0 THEN <<>> ELSE PathTo(G, parent, s, t)

----------------------------------------------------------------------------
(* The system under test.  sut.table[s][e] is the state the SUT goes to    *)
(* when e is fired in s: a state name, Undefined when the SUT rejects the  *)
(* request and stays where it is, Unset while the answer is still open.    *)

\* tests/common.py AppTest.state_list and AppTest.transition_table
AppStates == <<"Idle", "Running", "Paused", "Stopped">>
AppEvents == {"Initialize", "Reset", "Pause", "Stop", "Resume"}
transition_table ==
    [s \in Range(AppStates) |-> [e \in AppEvents |->
        CASE s = "Idle" /\ e = "Initialize" -> "Running"
          [] s = "Idle" /\ e = "Reset" -> "Idle"
          [] s = "Running" /\ e = "Pause" -> "Paused"
          [] s = "Running" /\ e = "Stop" -> "Stopped"
          [] s = "Paused" /\ e = "Resume" -> "Running"
          [] s = "Paused" /\ e = "Stop" -> "Stopped"
          [] s = "Stopped" /\ e = "Reset" -> "Idle"
          [] OTHER -> Undefined]]

\* the state names of a generic SUT, in the order they are first reached
GenericStates == SubSeq(<<"A", "B", "C", "D", "E">>, 1, MaxStates)
GenericEvents == <<"e1", "e2">>

\* the names the SUT has shown so far
SutUsed(S) ==
    {S.names[1], S.state}
    \cup {S.table[s][e] : s \in Range(S.names), e \in DOMAIN S.table[S.names[1]]}
    \cup Range(S.flaky)

\* the states an open answer may turn out to be: one seen before, or the next
\* new one
SutCandidates(S) ==
    LET used == SutUsed(S) \cap Range(S.names)
        fresh == {S.names[i] : i \in {j \in DOMAIN S.names :
                        /\ S.names[j] \notin used
                        /\ \A k \in 1..(j - 1) : S.names[k] \in used}}
    IN  used \cup fresh

\* AppTest.process_request, through Event.fire: the answers the SUT may give
\* to event e, as [sut, output]
ProcessRequest(S, e) ==
    LET s == S.state
        cell == <<s, e>>
        again == cell \in DOMAIN S.flaky /\ cell \in S.fired
        S1 == [S EXCEPT !.fired = IF cell \in DOMAIN S.flaky THEN @ \cup {cell} ELSE @]
    IN  IF again
        THEN {[sut |-> [S1 EXCEPT !.state = S.flaky[cell]], output |-> "success"]}
        ELSE IF S.table[s][e] = Undefined
        THEN {[sut |-> S1, output |-> "error"]}
        ELSE IF S.table[s][e] # Unset
        THEN {[sut |-> [S1 EXCEPT !.state = S.table[s][e]], output |-> "success"]}
        ELSE {[sut |-> [S1 EXCEPT !.state = t, !.table[s][e] = t],
               output |-> "success"] : t \in SutCandidates(S)}

\* AppTest.reset
Reset(S) == [S EXCEPT !.state = S.names[1]]

\* a SUT in its initial state
NewSut(names, table, flaky) ==
    [state |-> names[1], names |-> names, table |-> table, flaky |-> flaky,
     fired |-> {}]

----------------------------------------------------------------------------
(* Explorer                                                                *)

\* Explorer._initial_state
initial_state == sut.names[1]

\* Explorer._max_paths: pow(len(event_list), 3)
MaxPaths(events) == Len(events) * Len(events) * Len(events)

\* _is_mature_state satisfied by one exercised event
IsMatureStateAny(M, name) == \E e \in DOMAIN M[name] : M[name][e] # None

\* Explorer._is_mature_state
IsMatureState(M, name) == \A e \in DOMAIN M[name] : M[name][e] # None

\* _mature returning after the first row, the initial state's
MatureFirstRow(M) == IsMatureState(M, initial_state)

\* Explorer._mature, for the entire matrix
Mature(M) == \A name \in DOMAIN M : IsMatureState(M, name)

\* Explorer._get_state
GetState(M, name) == IF name \in DOMAIN M THEN name ELSE None

\* _add_state without the test that the state is new
AddStateMatrixAgain(M, s, events) ==
    IF ~IsValid(s) THEN M
    ELSE [n \in DOMAIN M \cup {s} |->
            IF n = s THEN [e \in Range(events) |-> None] ELSE M[n]]

\* Explorer._add_state, on the matrix
AddStateMatrix(M, s, events) ==
    IF ~IsValid(s) THEN M
    ELSE IF GetState(M, s) # None THEN M
    ELSE M @@ (s :> [e \in Range(events) |-> None])

\* Explorer._add_state, on the graph
AddStateGraph(M, G, s) ==
    IF ~IsValid(s) THEN G
    ELSE IF GetState(M, s) # None THEN G
    ELSE AddNode(G, s)

\* _set_transition adding the arrow from the target to the source
SetTransitionReversedArc(M, G, events, s, t, e, output) ==
    LET M1 == AddStateMatrix(M, s, events)
        G1 == AddStateGraph(M, G, s)
        M2 == AddStateMatrix(M1, t, events)
        G2 == AddStateGraph(M1, G1, t)
    IN  IF s \notin DOMAIN M2
        THEN [m |-> M2, g |-> G2, err |-> "KeyError", new |-> FALSE]
        ELSE IF e \notin DOMAIN M2[s]
        THEN [m |-> M2, g |-> G2, err |-> "UnknownEvent", new |-> FALSE]
        ELSE IF M2[s][e] = None
        THEN [m |-> [M2 EXCEPT ![s][e] = t],
              g |-> IF IsValid(s) /\ IsValid(t)
                    THEN AddArc(G2, Arrow(t, s, e), output, TRUE)
                    ELSE G2,
              err |-> "none", new |-> TRUE]
        ELSE IF M2[s][e] # t
        THEN [m |-> M2, g |-> G2, err |-> "RuntimeError", new |-> FALSE]
        ELSE [m |-> M2, g |-> G2, err |-> "none", new |-> FALSE]

\* _set_transition replacing a recorded target instead of raising
SetTransitionOverwrite(M, G, events, s, t, e, output) ==
    LET M1 == AddStateMatrix(M, s, events)
        G1 == AddStateGraph(M, G, s)
        M2 == AddStateMatrix(M1, t, events)
        G2 == AddStateGraph(M1, G1, t)
    IN  IF s \notin DOMAIN M2
        THEN [m |-> M2, g |-> G2, err |-> "KeyError", new |-> FALSE]
        ELSE IF e \notin DOMAIN M2[s]
        THEN [m |-> M2, g |-> G2, err |-> "UnknownEvent", new |-> FALSE]
        ELSE IF M2[s][e] = None
        THEN [m |-> [M2 EXCEPT ![s][e] = t],
              g |-> IF IsValid(s) /\ IsValid(t)
                    THEN AddArc(G2, Arrow(s, t, e), output, TRUE)
                    ELSE G2,
              err |-> "none", new |-> TRUE]
        ELSE IF M2[s][e] # t
        THEN [m |-> [M2 EXCEPT ![s][e] = t], g |-> G2, err |-> "RuntimeError",
              new |-> FALSE]
        ELSE [m |-> M2, g |-> G2, err |-> "none", new |-> FALSE]

\* Explorer._set_transition: the matrix, the graph and the exception after it
SetTransition(M, G, events, s, t, e, output) ==
    LET M1 == AddStateMatrix(M, s, events)
        G1 == AddStateGraph(M, G, s)
        M2 == AddStateMatrix(M1, t, events)
        G2 == AddStateGraph(M1, G1, t)
    IN  IF s \notin DOMAIN M2
        THEN [m |-> M2, g |-> G2, err |-> "KeyError", new |-> FALSE]
        ELSE IF e \notin DOMAIN M2[s]
        THEN [m |-> M2, g |-> G2, err |-> "UnknownEvent", new |-> FALSE]
        ELSE IF M2[s][e] = None
        THEN [m |-> [M2 EXCEPT ![s][e] = t],
              g |-> IF IsValid(s) /\ IsValid(t)
                    THEN AddArc(G2, Arrow(s, t, e), output, TRUE)
                    ELSE G2,
              err |-> "none", new |-> TRUE]
        ELSE IF M2[s][e] # t
        THEN [m |-> M2, g |-> G2, err |-> "RuntimeError", new |-> FALSE]
        ELSE [m |-> M2, g |-> G2, err |-> "none", new |-> FALSE]

\* _set_transition running its validators after it recorded the transition
SetThenValidate(V, M, G, events, s, t, e, output) ==
    LET st == SetTransition(M, G, events, s, t, e, output)
    IN  IF <<s, e, t>> \in V /\ st.err = "none"
        THEN [st EXCEPT !.err = "InvalidTransition"]
        ELSE st

\* Explorer._set_transition with the validators: val.validate(transition)
\* raises InvalidTransition for a transition in V, before anything else is done
ValidateAndSet(V, M, G, events, s, t, e, output) ==
    IF <<s, e, t>> \in V
    THEN [m |-> M, g |-> G, err |-> "InvalidTransition", new |-> FALSE]
    ELSE SetTransition(M, G, events, s, t, e, output)

\* Explorer._find_nearest_immature_state
FindNearestImmatureState(M, G, source) ==
    LET order == Bfs(G, source)
        imm == {i \in DOMAIN order : ~IsMatureState(M, order[i])}
    IN  IF imm = {} THEN "" ELSE order[Min(imm)]

\* the list(range(len(self._state_matrix))) that path1 and path2 start as
Placeholder(M) == [i \in 1..Cardinality(DOMAIN M) |-> Arrow("int", "int", "int")]

\* _go_to_nearest_immature_state without the branch that resets to an immature
\* initial state
GoToNearestImmatureStateNoShortcut(M, G, source, init) ==
    IF ~IsMatureState(M, source)
    THEN [reset |-> FALSE, exec |-> FALSE, path |-> <<>>, ret |-> source,
          err |-> "none"]
    ELSE LET target1 == FindNearestImmatureState(M, G, source)
             path1 == IF target1 # "" THEN ShortestPath(G, source, target1)
                      ELSE Placeholder(M)
             target2 == FindNearestImmatureState(M, G, init)
             path2 == IF source # init THEN ShortestPath(G, init, target2)
                      ELSE Placeholder(M)
         IN  IF source # init /\ target2 = ""
             THEN [reset |-> FALSE, exec |-> FALSE, path |-> <<>>, ret |-> "",
                   err |-> "ValueError"]
             ELSE IF Len(path1) <= Len(path2)
             THEN [reset |-> FALSE, exec |-> TRUE, path |-> path1, ret |-> "",
                   err |-> "none"]
             ELSE [reset |-> TRUE, exec |-> TRUE, path |-> path2, ret |-> "",
                   err |-> "none"]

\* _go_to_nearest_immature_state without the early return for an immature
\* source
GoToNearestImmatureStateAlways(M, G, source, init) ==
    LET target1 == FindNearestImmatureState(M, G, source)
        path1 == IF target1 # "" THEN ShortestPath(G, source, target1)
                 ELSE Placeholder(M)
        target2 == FindNearestImmatureState(M, G, init)
        path2 == IF source # init THEN ShortestPath(G, init, target2)
                 ELSE Placeholder(M)
    IN  IF source # init /\ ~IsMatureState(M, init)
        THEN [reset |-> TRUE, exec |-> FALSE, path |-> <<>>, ret |-> init,
              err |-> "none"]
        ELSE IF source # init /\ target2 = ""
        THEN [reset |-> FALSE, exec |-> FALSE, path |-> <<>>, ret |-> "",
              err |-> "ValueError"]
        ELSE IF Len(path1) <= Len(path2)
        THEN [reset |-> FALSE, exec |-> TRUE, path |-> path1, ret |-> "",
              err |-> "none"]
        ELSE [reset |-> TRUE, exec |-> TRUE, path |-> path2, ret |-> "",
              err |-> "none"]

\* Explorer._go_to_nearest_immature_state, up to the call of _execute_path:
\* what it decided (reset: sut.reset() is called; path: the path to execute;
\* ret: the name returned without executing a path; err: the exception)
GoToNearestImmatureState(M, G, source, init) ==
    IF ~IsMatureState(M, source)
    THEN [reset |-> FALSE, exec |-> FALSE, path |-> <<>>, ret |-> source,
          err |-> "none"]
    ELSE LET target1 == FindNearestImmatureState(M, G, source)
             path1 == IF target1 # "" THEN ShortestPath(G, source, target1)
                      ELSE Placeholder(M)
             target2 == FindNearestImmatureState(M, G, init)
             path2 == IF source # init THEN ShortestPath(G, init, target2)
                      ELSE Placeholder(M)
         IN  IF source # init /\ ~IsMatureState(M, init)
             THEN [reset |-> TRUE, exec |-> FALSE, path |-> <<>>, ret |-> init,
                   err |-> "none"]
             ELSE IF source # init /\ target2 = ""
             THEN [reset |-> FALSE, exec |-> FALSE, path |-> <<>>, ret |-> "",
                   err |-> "ValueError"]
             ELSE IF Len(path1) <= Len(path2)
             THEN [reset |-> FALSE, exec |-> TRUE, path |-> path1, ret |-> "",
                   err |-> "none"]
             ELSE [reset |-> TRUE, exec |-> TRUE, path |-> path2, ret |-> "",
                   err |-> "none"]

\* _discover taking the first event of the list whether or not it is exercised
NextEventFirst(M, events, s) == events[1]

\* _discover skipping only the events recorded as leaving the state unchanged
NextEventNotSelf(M, events, s) ==
    events[Min({i \in DOMAIN events : M[s][events[i]] # s})]

\* the first event of the list _discover has not exercised on the state
NextEvent(M, events, s) ==
    events[Min({i \in DOMAIN events : M[s][events[i]] = None})]

\* one more firing of event e on state s in the history
CountFired(f, s, e) ==
    IF <<s, e>> \in DOMAIN f
    THEN [f EXCEPT ![<<s, e>>] = @ + 1]
    ELSE f @@ (<<s, e>> :> 1)

\* Explorer.explore: the loop ends when the matrix is mature
ExploreReturn ==
    /\ pc = "explore"
    /\ Mature(state_matrix)
    /\ pc' = "done"
    /\ UNCHANGED <<exVars, state_machine, err, stVars>>

\* Explorer.explore calls _go_to_nearest_immature_state(current_state.name);
\* an empty path makes _execute_path return "", for which _get_state gives
\* None and _discover raises UnknownEvent
GoToNearest ==
    /\ pc = "explore"
    /\ ~Mature(state_matrix)
    /\ LET d == GoToNearestImmatureState(state_matrix, state_machine,
                                         current_state, initial_state)
       IN  /\ sut' = IF d.reset THEN Reset(sut) ELSE sut
           /\ IF d.err # "none"
              THEN pc' = "raised" /\ err' = d.err /\ UNCHANGED <<current_state, path>>
              ELSE IF ~d.exec
              THEN pc' = "discover" /\ current_state' = d.ret /\ UNCHANGED <<err, path>>
              ELSE IF d.path = <<>>
              THEN pc' = "raised" /\ err' = "UnknownEvent"
                   /\ UNCHANGED <<current_state, path>>
              ELSE IF d.path[1].name = "int"
              THEN pc' = "raised" /\ err' = "AttributeError"
                   /\ UNCHANGED <<current_state, path>>
              ELSE pc' = "execute" /\ path' = d.path /\ UNCHANGED <<current_state, err>>
           /\ nav' = [on |-> TRUE, source |-> current_state, at |-> sut.state,
                      M |-> state_matrix, G |-> state_machine,
                      target |-> IF IsMatureState(state_matrix, current_state)
                                 THEN FindNearestImmatureState(
                                          state_matrix, state_machine,
                                          current_state)
                                 ELSE Unset,
                      log |-> IF d.reset THEN <<[op |-> "reset"]>> ELSE <<>>,
                      returned |-> d.err = "none" /\ (~d.exec \/ d.path = <<>>),
                      ret |-> IF d.err # "none" THEN Unset
                              ELSE IF ~d.exec THEN d.ret
                              ELSE IF d.path = <<>> THEN "" ELSE Unset,
                      end |-> IF d.reset THEN Reset(sut).state ELSE sut.state]
    /\ UNCHANGED <<event_list, state_matrix, state_machine, generation, warnings, validators, committed,
                   fired, reentry, calls, lookup, compared, io, stVars>>

\* Explorer._execute_path: fire the event of the next arrow of the path; after
\* the last one explore calls _discover on the head of the last arrow
ExecutePath ==
    /\ pc = "execute"
    /\ path # <<>>
    /\ \E r \in ProcessRequest(sut, Head(path).name) :
          /\ sut' = r.sut
          /\ path' = Tail(path)
          /\ IF Tail(path) = <<>>
             THEN pc' = "discover" /\ current_state' = Head(path).head
             ELSE UNCHANGED <<pc, current_state>>
          /\ nav' = [nav EXCEPT
                        !.log = Append(@, [op |-> "fire",
                                           event |-> Head(path).name]),
                        !.returned = Tail(path) = <<>>,
                        !.ret = IF Tail(path) = <<>> THEN Head(path).head ELSE @,
                        !.end = r.sut.state]
    /\ UNCHANGED <<event_list, state_matrix, state_machine, generation, warnings, validators, err,
                   committed, fired, reentry, calls, lookup, compared, io, stVars>>

\* _discover returning to an explore that gives up once the limit is exceeded
DiscoverReturnStopsAtLimit ==
    /\ pc = "discover"
    /\ current_state \in DOMAIN state_matrix
    /\ IsMatureState(state_matrix, current_state)
    /\ pc' = IF generation + 1 > MaxPaths(event_list) THEN "done" ELSE "explore"
    /\ generation' = generation + 1
    /\ warnings' = IF generation + 1 > MaxPaths(event_list)
                   THEN warnings + 1 ELSE warnings
    /\ UNCHANGED <<sut, event_list, state_matrix, state_machine, current_state,
                   path, err, validators, committed, fired, reentry, nav, calls,
                   lookup, compared, io, stVars>>

\* Explorer._discover on a mature state returns it to explore, which counts
\* the iteration and logs a warning when the count exceeds _max_paths
DiscoverReturn ==
    /\ pc = "discover"
    /\ current_state \in DOMAIN state_matrix
    /\ IsMatureState(state_matrix, current_state)
    /\ pc' = "explore"
    /\ generation' = generation + 1
    /\ warnings' = IF generation + 1 > MaxPaths(event_list)
                   THEN warnings + 1 ELSE warnings
    /\ UNCHANGED <<sut, event_list, state_matrix, state_machine, current_state,
                   path, err, validators, committed, fired, reentry, nav, calls, lookup, compared, io, stVars>>

\* Explorer._discover fires the next event that is not exercised, records the
\* transition and, if the state changed, goes on with the new state
DiscoverFire ==
    /\ pc = "discover"
    /\ current_state \in DOMAIN state_matrix
    /\ ~IsMatureState(state_matrix, current_state)
    /\ LET s == current_state
           e == NextEvent(state_matrix, event_list, s)
       IN  \E r \in ProcessRequest(sut, e) :
              LET t == r.sut.state
                  st == ValidateAndSet(validators, state_matrix, state_machine,
                                       event_list, s, t, e, r.output)
              IN  /\ sut' = r.sut
                  /\ state_matrix' = st.m
                  /\ state_machine' = st.g
                  /\ fired' = CountFired(fired, s, e)
                  /\ committed' = IF st.new THEN committed \cup {<<s, e, t>>}
                                  ELSE committed
                  /\ IF st.err # "none"
                     THEN pc' = "raised" /\ err' = st.err /\ UNCHANGED current_state
                     ELSE pc' = "discover" /\ current_state' = t /\ UNCHANGED err
    /\ UNCHANGED <<event_list, path, generation, warnings, validators, reentry, nav, calls, lookup, compared, io, stVars>>

\* Explorer._discover on a state that is not in the matrix raises UnknownEvent
DiscoverUnknown ==
    /\ pc = "discover"
    /\ current_state \notin DOMAIN state_matrix
    /\ pc' = "raised"
    /\ err' = "UnknownEvent"
    /\ UNCHANGED <<exVars, state_machine, stVars>>

\* a caller sets the SUT to a state of the matrix and enters _discover on it
\* (once for each state)
Reenter ==
    /\ pc \in {"explore", "done"}
    /\ \E s \in DOMAIN state_matrix \ {r.state : r \in reentry} :
          /\ sut' = [sut EXCEPT !.state = s]
          /\ current_state' = s
          /\ reentry' = reentry \cup {[state |-> s, row |-> state_matrix[s]]}
    /\ pc' = "discover"
    /\ UNCHANGED <<event_list, state_matrix, state_machine, path, generation, warnings, validators, err,
                   committed, fired, nav, calls, lookup, compared, io, stVars>>

----------------------------------------------------------------------------
(* Specifications of the Explorer.                                         *)

\* no strategy is travelling
NoStrategy ==
    /\ strategy = [kind |-> "none", start |-> ""]
    /\ graph = EmptyGraph
    /\ paths = <<>>
    /\ stack = <<>>
    /\ eul = [done |-> FALSE]
    /\ nc = [on |-> FALSE]

\* Explorer.__init__ on a SUT with validators that reject the transitions V,
\* followed by the call explore(sut.state)
InitExplorerWith(S, events, V) ==
    /\ sut = S
    /\ event_list = events
    /\ state_matrix = AddStateMatrix(<<>>, S.state, events)
    /\ state_machine = AddStateGraph(<<>>, EmptyGraph, S.state)
    /\ current_state = S.state
    /\ path = <<>>
    /\ generation = 0
    /\ warnings = 0
    /\ validators = V
    /\ pc = "explore"
    /\ err = "none"
    /\ committed = {}
    /\ fired = <<>>
    /\ reentry = {}
    /\ nav = [on |-> FALSE]
    /\ calls = NoCalls
    /\ lookup = [op |-> "none"]
    /\ compared = [op |-> "none"]
    /\ io = [stage |-> "none"]

\* Explorer.__init__ without validators, followed by the call
\* explore(sut.state)
InitExplorer(S, events) == InitExplorerWith(S, events, {})

\* the orders a dict of the given event names may have
Orders(names) ==
    {p \in [1..Cardinality(names) -> names] :
        \A i, j \in 1..Cardinality(names) : p[i] = p[j] => i = j}

\* any deterministic SUT of at most MaxStates states, all of them valid
Init ==
    /\ InitExplorer(NewSut(GenericStates,
                           [s \in Range(GenericStates) |->
                               [e \in Range(GenericEvents) |-> Unset]],
                           <<>>),
                    GenericEvents)
    /\ NoStrategy

Next ==
    \/ ExploreReturn
    \/ GoToNearest
    \/ ExecutePath
    \/ DiscoverReturn
    \/ DiscoverFire

Spec == Init /\ [][Next]_vars

\* a SUT of n states S0 .. S(n-1) where e1 leads back to S0 and e2 to the next
\* state, the last one's to S0: it takes n iterations of explore to learn
ChainNames(n) == [i \in 1..n |-> "S" \o ToString(i - 1)]
ChainTable(n) ==
    [s \in Range(ChainNames(n)) |->
        LET i == CHOOSE k \in 1..n : ChainNames(n)[k] = s
        IN  [e \in {"e1", "e2"} |->
                IF e = "e1" THEN ChainNames(n)[1]
                ELSE ChainNames(n)[(i % n) + 1]]]

InitChain ==
    /\ \E n \in 1..ChainLen, events \in Orders({"e1", "e2"}) :
          InitExplorer(NewSut(ChainNames(n), ChainTable(n), <<>>), events)
    /\ NoStrategy

SpecChain == InitChain /\ [][Next]_vars

\* any deterministic SUT of at most MaxStates states, explored with a
\* validator that rejects one transition
InitValidate ==
    /\ \E s \in Range(GenericStates), e \in Range(GenericEvents),
          t \in Range(GenericStates) :
          InitExplorerWith(NewSut(GenericStates,
                                  [x \in Range(GenericStates) |->
                                      [y \in Range(GenericEvents) |-> Unset]],
                                  <<>>),
                           GenericEvents, {<<s, e, t>>})
    /\ NoStrategy

SpecValidate == InitValidate /\ [][Next]_vars

\* a caller calls _set_transition(Transition(s, t, e, output)) once, on a
\* state of the maze, while explore is between two iterations or has returned
CallSetTransition ==
    /\ pc \in {"explore", "done"}
    /\ lookup.op = "none"
    /\ \E s \in DOMAIN state_matrix, e \in Range(event_list),
          t \in Range(GenericStates) \cup {"invalid"} :
          LET st == ValidateAndSet(validators, state_matrix, state_machine,
                                   event_list, s, t, e, "success")
          IN  /\ state_matrix' = st.m
              /\ state_machine' = st.g
              /\ err' = st.err
              /\ committed' = IF st.new THEN committed \cup {<<s, e, t>>}
                              ELSE committed
              /\ lookup' = [op |-> "set_transition", source |-> s, event |-> e,
                            target |-> t, old |-> state_matrix[s][e],
                            M |-> state_matrix, G |-> state_machine]
    /\ pc' = "called"
    /\ UNCHANGED <<sut, event_list, current_state, path, generation, warnings,
                   validators, fired, reentry, nav, calls, compared, io, stVars>>

NextSet ==
    \/ Next
    \/ CallSetTransition

SpecSet == Init /\ [][NextSet]_vars

\* any SUT of two valid states that answers some events by reporting the
\* invalid state
InvalidStates == <<"A", "B", "invalid">>
InitInvalid ==
    /\ \E table \in [{"A", "B"} -> [Range(GenericEvents) -> Range(InvalidStates)]] :
          InitExplorer(NewSut(InvalidStates,
                              [s \in Range(InvalidStates) |->
                                  IF IsValid(s) THEN table[s]
                                  ELSE [e \in Range(GenericEvents) |-> Undefined]],
                              <<>>),
                       GenericEvents)
    /\ NoStrategy

NextInvalid ==
    \/ Next
    \/ DiscoverUnknown

SpecInvalid == InitInvalid /\ [][NextInvalid]_vars

\* tests/test_explorer.py test_engine: AppTest and its five events, in any order
InitToggle ==
    /\ \E events \in Orders(AppEvents) :
          InitExplorer(NewSut(AppStates, transition_table, <<>>), events)
    /\ NoStrategy

SpecToggle == InitToggle /\ [][Next]_vars

\* a SUT that answers Initialize on Idle with Running the first time and with
\* Paused afterwards, and is deterministic otherwise
AmbigStates == <<"Idle", "Running", "Paused">>
AmbigEvents == {"Initialize", "Reset"}
InitAmbig ==
    /\ \E events \in Orders(AmbigEvents) :
          InitExplorer(NewSut(AmbigStates,
                              [s \in Range(AmbigStates) |-> [e \in AmbigEvents |->
                                  IF s = "Idle" /\ e = "Initialize"
                                  THEN "Running" ELSE Unset]],
                              <<"Idle", "Initialize">> :> "Paused"),
                       events)
    /\ NoStrategy

NextAmbig ==
    \/ Next
    \/ Reenter

SpecAmbig == InitAmbig /\ [][NextAmbig]_vars

----------------------------------------------------------------------------
(* The Eulerian property of a graph and eulerize                          *)
(* (ait/strategy/edge_cover.py).                                           *)

\* vertex.degree(mode="out") - vertex.degree(mode="in"); a self loop counts
\* once on each side
OutDegree(G, v) == Cardinality({i \in DOMAIN G.es : G.es[i].tail = v})
InDegree(G, v) == Cardinality({i \in DOMAIN G.es : G.es[i].head = v})
Diff(G, v) == OutDegree(G, v) - InDegree(G, v)

\* graph_wrapper.is_connected: igraph's is_connected(mode="weak"); the graph
\* without vertices is not connected
IsConnected(G) ==
    /\ G.vs # <<>>
    /\ Len(BfsVisit(G, "all", <<G.vs[1]>>, 1)) = Len(G.vs)

\* the loop of is_eulerian over the vertices, from vertex id i on
RECURSIVE EulerianScan(_, _, _)
EulerianScan(G, i, uneven_degrees) ==
    IF i > Len(G.vs)
    THEN IF Cardinality(uneven_degrees) = 0 THEN "CIRCUIT"
         ELSE IF Cardinality(uneven_degrees) = 2 THEN "PATH"
         ELSE "NONE"
    ELSE LET diff == Diff(G, G.vs[i])
         IN  IF diff = 0 THEN EulerianScan(G, i + 1, uneven_degrees)
             ELSE IF diff > 1 \/ diff < -1 THEN "NONE"
             ELSE IF diff \in uneven_degrees THEN "NONE"
             ELSE EulerianScan(G, i + 1, uneven_degrees \cup {diff})

\* is_eulerian without the check of the connectivity
IsEulerianUnconnected(G) == EulerianScan(G, 1, {})

\* is_eulerian
IsEulerian(G) == IF ~IsConnected(G) THEN "NONE" ELSE EulerianScan(G, 1, {})

\* the loop of get_uneven_pair over the vertices, from vertex id i on
RECURSIVE UnevenScan(_, _, _, _)
UnevenScan(G, i, hub, sink) ==
    IF i > Len(G.vs)
    THEN [hub |-> hub, sink |-> sink]
    ELSE LET diff == Diff(G, G.vs[i])
             hub2 == IF diff > 0 THEN G.vs[i] ELSE hub
             sink2 == IF diff < 0 THEN G.vs[i] ELSE sink
         IN  IF hub2 # "" /\ sink2 # ""
             THEN [hub |-> hub2, sink |-> sink2]
             ELSE UnevenScan(G, i + 1, hub2, sink2)

\* get_uneven_pair looking at the first vertex only
GetUnevenPairFirstVertex(G) ==
    LET diff == Diff(G, G.vs[1])
    IN  [hub |-> IF diff > 0 THEN G.vs[1] ELSE "",
         sink |-> IF diff < 0 THEN G.vs[1] ELSE ""]

\* get_uneven_pair
GetUnevenPair(G) == UnevenScan(G, 1, "", "")

RECURSIVE Repeat(_, _)
Repeat(s, n) == IF n <= 0 THEN <<>> ELSE s \o Repeat(s, n - 1)

\* duplicate_path adding the copies without the name
DuplicatePathUnnamed(G, p) ==
    IF p = <<>>
    THEN G
    ELSE LET repeat == Min({0 - Diff(G, p[1].tail), Diff(G, p[Len(p)].head)})
         IN  [G EXCEPT !.es = @ \o Repeat(
                [i \in DOMAIN p |-> Edge(Arrow(p[i].tail, p[i].head, ""), None)],
                repeat)]

\* duplicate_path adding each copied edge from its head to its tail
DuplicatePathReversed(G, p) ==
    IF p = <<>>
    THEN G
    ELSE LET repeat == Min({0 - Diff(G, p[1].tail), Diff(G, p[Len(p)].head)})
         IN  [G EXCEPT !.es = @ \o Repeat(
                [i \in DOMAIN p |-> Edge(Arrow(p[i].head, p[i].tail, p[i].name), None)],
                repeat)]

\* duplicate_path: the path is copied until its first or its last vertex is
\* balanced
DuplicatePath(G, p) ==
    IF p = <<>>
    THEN G
    ELSE LET v_from == p[1].tail
             v_to == p[Len(p)].head
             repeat == Min({0 - Diff(G, v_from), Diff(G, v_to)})
         IN  [G EXCEPT !.es = @ \o Repeat([i \in DOMAIN p |-> Edge(p[i], None)],
                                          repeat)]

\* eulerize returning CIRCUIT after the first path it duplicated
EulerizeIterOnce(G) ==
    LET pair == GetUnevenPair(G)
        p == ShortestPath(G, pair.sink, pair.hub)
    IN  IF pair.hub = "" /\ pair.sink = ""
        THEN [g |-> G, ret |-> "CIRCUIT", again |-> FALSE]
        ELSE IF pair.hub = "" \/ pair.sink = ""
        THEN [g |-> G, ret |-> "NONE", again |-> FALSE]
        ELSE IF p = <<>>
        THEN [g |-> G, ret |-> IsEulerian(G), again |-> FALSE]
        ELSE [g |-> DuplicatePath(G, p), ret |-> "CIRCUIT", again |-> FALSE]

\* one round of the while loop of eulerize: the graph it leaves, the value
\* it returns, and whether the loop goes on
EulerizeIter(G) ==
    LET pair == GetUnevenPair(G)
        p == ShortestPath(G, pair.sink, pair.hub)
    IN  IF pair.hub = "" /\ pair.sink = ""
        THEN [g |-> G, ret |-> "CIRCUIT", again |-> FALSE]
        ELSE IF pair.hub = "" \/ pair.sink = ""
        THEN [g |-> G, ret |-> "NONE", again |-> FALSE]
        ELSE IF p = <<>>
        THEN [g |-> G, ret |-> IsEulerian(G), again |-> FALSE]
        ELSE [g |-> DuplicatePath(G, p), ret |-> "", again |-> TRUE]

\* the while loop of eulerize: the graph as it leaves it and the value returned
RECURSIVE EulerizeLoop(_)
EulerizeLoop(G) ==
    LET r == EulerizeIter(G)
    IN  IF r.again THEN EulerizeLoop(r.g) ELSE [g |-> r.g, ret |-> r.ret]

\* eulerize
Eulerize(G) ==
    IF IsEulerian(G) # "NONE"
    THEN [g |-> G, ret |-> IsEulerian(G)]
    ELSE IF ~IsConnected(G)
    THEN [g |-> G, ret |-> "NONE"]
    ELSE EulerizeLoop(G)

----------------------------------------------------------------------------
(* The graphs handed to the strategies: built through GraphWrapper with    *)
(* add_node and add_arc, the edges in the order of their end points.       *)

VertexNames == <<"X", "Y", "Z", "W", "V">>
EdgeNames == <<"a", "b", "c", "d">>

\* graph.vs.find(name).index, counted from 1
Vid(G, name) == CHOOSE i \in DOMAIN G.vs : G.vs[i] = name

\* no Explorer is running
NoExplorer ==
    /\ sut = [state |-> ""]
    /\ event_list = <<>>
    /\ state_matrix = <<>>
    /\ current_state = ""
    /\ path = <<>>
    /\ generation = 0
    /\ warnings = 0
    /\ validators = {}
    /\ err = "none"
    /\ committed = {}
    /\ fired = <<>>
    /\ reentry = {}
    /\ nav = [on |-> FALSE]
    /\ calls = NoCalls
    /\ lookup = [op |-> "none"]
    /\ compared = [op |-> "none"]
    /\ io = [stage |-> "none"]

\* GraphWrapper(): the empty graph, before any strategy travels
InitStrategy ==
    /\ NoExplorer
    /\ NoStrategy
    /\ state_machine = EmptyGraph
    /\ pc = "build"

\* GraphWrapper.add_node with the next vertex name
BuildAddNode ==
    /\ pc = "build"
    /\ Len(state_machine.vs) < MaxNodes
    /\ state_machine' = AddNode(state_machine, VertexNames[Len(state_machine.vs) + 1])
    /\ UNCHANGED <<exVars, pc, err, stVars>>

\* GraphWrapper.add_arc between two vertices of the graph; parallel edges get
\* different names
BuildAddArc ==
    /\ pc = "build"
    /\ Len(state_machine.es) < MaxEdges
    /\ \E t, h \in Nodes(state_machine) :
          LET G == state_machine
              n == Cardinality(GetArcs(G, Arrow(t, h, "")))
              last == G.es[Len(G.es)]
          IN  /\ n < MaxParallel
              /\ G.es # <<>> =>
                    \/ Vid(G, last.tail) < Vid(G, t)
                    \/ Vid(G, last.tail) = Vid(G, t) /\ Vid(G, last.head) <= Vid(G, h)
              /\ state_machine' = AddArc(G, Arrow(t, h, EdgeNames[n + 1]), None, TRUE)
    /\ UNCHANGED <<exVars, pc, err, stVars>>

\* eulerize(state_machine.graph), called on the graph itself, up to its loop:
\* a graph that is Eulerian or is not connected is returned as it is; first
\* is what is_eulerian says of the graph as it was given
CallEulerize ==
    /\ pc = "build"
    /\ strategy' = [kind |-> "eulerize", start |-> ""]
    /\ IF IsEulerian(state_machine) # "NONE" \/ ~IsConnected(state_machine)
       THEN /\ eul' = [done |-> TRUE, orig |-> state_machine, g |-> state_machine,
                       ret |-> IsEulerian(state_machine),
                       class |-> IsEulerian(state_machine), iter |-> 0,
                       first |-> IsEulerian(state_machine)]
            /\ pc' = "done"
       ELSE /\ eul' = [done |-> FALSE, orig |-> state_machine, iter |-> 0,
                       first |-> IsEulerian(state_machine)]
            /\ pc' = "eulerize"
    /\ UNCHANGED <<exVars, state_machine, err, graph, paths, stack, nc>>

\* eulerize: one round of its loop, which duplicates a path from the sink to
\* the hub or returns
EulerizeStep ==
    /\ pc = "eulerize"
    /\ LET r == EulerizeIter(state_machine)
       IN  /\ state_machine' = r.g
           /\ IF r.again
              THEN /\ eul' = [eul EXCEPT !.iter = @ + 1]
                   /\ UNCHANGED pc
              ELSE /\ eul' = [done |-> TRUE, orig |-> eul.orig, g |-> r.g,
                              ret |-> r.ret, class |-> IsEulerian(r.g),
                              iter |-> eul.iter, first |-> eul.first]
                   /\ pc' = "done"
    /\ UNCHANGED <<exVars, err, strategy, graph, paths, stack, nc>>

NextEulerize ==
    \/ BuildAddNode
    \/ BuildAddArc
    \/ CallEulerize
    \/ EulerizeStep

SpecEulerize == InitStrategy /\ [][NextEulerize]_vars

\* GraphWrapper.add_arc as in BuildAddArc, for graphs of up to MaxEulerEdges
\* edges
BuildEulerArc ==
    /\ pc = "build"
    /\ Len(state_machine.es) < MaxEulerEdges
    /\ \E t, h \in Nodes(state_machine) :
          LET G == state_machine
              n == Cardinality(GetArcs(G, Arrow(t, h, "")))
              last == G.es[Len(G.es)]
          IN  /\ n < MaxParallel
              /\ G.es # <<>> =>
                    \/ Vid(G, last.tail) < Vid(G, t)
                    \/ Vid(G, last.tail) = Vid(G, t) /\ Vid(G, last.head) <= Vid(G, h)
              /\ state_machine' = AddArc(G, Arrow(t, h, EdgeNames[n + 1]), None, TRUE)
    /\ UNCHANGED <<exVars, pc, err, stVars>>

\* eulerize on the graphs of up to MaxEulerEdges edges
NextEulerMore ==
    \/ BuildAddNode
    \/ BuildEulerArc
    \/ CallEulerize
    \/ EulerizeStep

SpecEulerMore == InitStrategy /\ [][NextEulerMore]_vars

----------------------------------------------------------------------------
(* tests/test_utils.py test_eulerize: the graph of input_data, loaded in   *)
(* any order of its edges, and eulerized.                                  *)

\* input_data: A->B, A->C, A->D, B->C, B->D, C->D, D->A with their names
SampleArrows ==
    {Arrow("A", "B", "ab"), Arrow("A", "C", "ac"), Arrow("A", "D", "ad"),
     Arrow("B", "C", "bc"), Arrow("B", "D", "ad"), Arrow("C", "D", "cd"),
     Arrow("D", "A", "da")}

\* GraphWrapper() before load_from_dict
InitSample ==
    /\ NoExplorer
    /\ NoStrategy
    /\ state_machine = EmptyGraph
    /\ pc = "load"

\* load_from_dict: Graph.DictDict gives the vertices their ids as it meets
\* them and the edges theirs in the order of the dict
LoadSampleEdge ==
    /\ pc = "load"
    /\ \E a \in SampleArrows :
          /\ GetArcs(state_machine, a) = {}
          /\ state_machine' = AddArc(state_machine, a, None, TRUE)
          /\ pc' = IF Len(state_machine.es) + 1 = Cardinality(SampleArrows)
                   THEN "build" ELSE "load"
    /\ UNCHANGED <<exVars, err, stVars>>

NextSample ==
    \/ LoadSampleEdge
    \/ CallEulerize
    \/ EulerizeStep

SpecSample == InitSample /\ [][NextSample]_vars

----------------------------------------------------------------------------
(* EdgeCover (ait/strategy/edge_cover.py).                                 *)

\* the k-th smallest element of a set of numbers
Kth(S, k) == CHOOSE i \in S : Cardinality({j \in S : j <= i}) = k

\* delete_edges removing every edge that joins the end points of a given one
DeleteEdgesParallel(G, ids) ==
    [G EXCEPT !.es = SelectSeq(@, LAMBDA e :
        \A i \in ids : e.tail # G.es[i].tail \/ e.head # G.es[i].head)]

\* igraph delete_edges: the edges left keep their order
DeleteEdges(G, ids) ==
    LET keep == DOMAIN G.es \ ids
    IN  [G EXCEPT !.es = [k \in 1..Cardinality(keep) |-> G.es[Kth(keep, k)]]]

\* vertex.out_edges()
OutEdges(G, v) == {i \in DOMAIN G.es : G.es[i].tail = v}

\* the strategy working on state_machine.graph itself
GraphItself(G) == [g |-> G, shared |-> TRUE]

\* state_machine.graph.copy(): a graph of its own with the same vertices and
\* edges; shared tells whether a change of it changes state_machine.graph too
CopyGraph(G) == [g |-> G, shared |-> FALSE]

\* deepcopy(state_machine.graph)
DeepCopyGraph(G) == [g |-> G, shared |-> FALSE]

\* state_machine.graph after the strategy changed its working graph to G
Original(G) == IF strategy.shared THEN G ELSE state_machine

\* EdgeCover.travel up to the call of _dfs: copy the graph, delete the self
\* loops unless self_circle is set, eulerize if is_eulerian says NONE
EdgeTravel ==
    /\ pc = "build"
    /\ \E start \in Nodes(state_machine), self_circle \in BOOLEAN :
          LET c == CopyGraph(state_machine)
              loops == {i \in DOMAIN c.g.es : c.g.es[i].tail = c.g.es[i].head}
              g1 == IF ~self_circle THEN DeleteEdges(c.g, loops) ELSE c.g
              r == Eulerize(g1)
              g2 == IF IsEulerian(g1) = "NONE" THEN r.g ELSE g1
          IN  /\ strategy' = [kind |-> "edge", start |-> start,
                              self_circle |-> self_circle, shared |-> c.shared,
                              input |-> state_machine]
              /\ graph' = g2
              /\ state_machine' = IF c.shared THEN g2 ELSE state_machine
              /\ eul' = [done |-> TRUE, orig |-> g1, g |-> g2,
                         ret |-> IF IsEulerian(g1) = "NONE" THEN r.ret ELSE "skipped",
                         class |-> IsEulerian(g2)]
              /\ stack' = <<[v |-> start, inc |-> ""]>>
    /\ paths' = <<>>
    /\ pc' = "dfs"
    /\ UNCHANGED <<exVars, err, nc>>

\* EdgeCover._dfs: random.choice of an outgoing edge of the current vertex,
\* which is deleted, and the call of _dfs on its head
DfsVisit ==
    /\ pc = "dfs"
    /\ stack # <<>>
    /\ \E i \in OutEdges(graph, stack[Len(stack)].v) :
          /\ graph' = DeleteEdges(graph, {i})
          /\ state_machine' = Original(DeleteEdges(graph, {i}))
          /\ stack' = Append(stack, [v |-> graph.es[i].head,
                                     inc |-> graph.es[i].name])
    /\ UNCHANGED <<exVars, pc, err, strategy, paths, eul, nc>>

\* EdgeCover._dfs: a vertex without outgoing edges is appended to the paths
\* with its incoming edge and the call returns; when the first call returns,
\* travel reverses the paths and returns them
DfsReturn ==
    /\ pc = "dfs"
    /\ stack # <<>>
    /\ OutEdges(graph, stack[Len(stack)].v) = {}
    /\ LET top == stack[Len(stack)]
           done == Append(paths, <<top.v, top.inc>>)
       IN  /\ stack' = SubSeq(stack, 1, Len(stack) - 1)
           /\ IF Len(stack) = 1
              THEN paths' = Reverse(done) /\ pc' = "done"
              ELSE paths' = done /\ UNCHANGED pc
    /\ UNCHANGED <<exVars, state_machine, err, strategy, graph, eul, nc>>

NextEdge ==
    \/ BuildAddNode
    \/ BuildAddArc
    \/ EdgeTravel
    \/ DfsVisit
    \/ DfsReturn

SpecEdge == InitStrategy /\ [][NextEdge]_vars

----------------------------------------------------------------------------
(* NodeCover (ait/strategy/node_cover.py).  Vertex ids count from 1.       *)

\* an edge joins vertex id i to vertex id j
Adjacent(G, i, j) ==
    \E k \in DOMAIN G.es : G.es[k].tail = G.vs[i] /\ G.es[k].head = G.vs[j]

\* igraph get_all_simple_paths: depth first from the end of path p, the
\* neighbours taken in vertex id order from n on; a path is reported when it
\* reaches a vertex
RECURSIVE SimplePathsVia(_, _, _)
SimplePathsVia(G, p, n) ==
    IF n > Len(G.vs)
    THEN <<>>
    ELSE (IF n \notin Range(p) /\ Adjacent(G, p[Len(p)], n)
          THEN <<Append(p, n)>> \o SimplePathsVia(G, Append(p, n), 1)
          ELSE <<>>)
         \o SimplePathsVia(G, p, n + 1)

\* sorted(paths, key=len): stable, the shorter paths first
RECURSIVE SortedByLen(_, _, _)
SortedByLen(ps, k, max) ==
    IF k > max THEN <<>>
    ELSE SelectSeq(ps, LAMBDA q : Len(q) = k) \o SortedByLen(ps, k + 1, max)

\* sorted(self._graph.get_all_simple_paths(vid, to=self._unvisited_vids), key=len)
AllSimplePaths(G, vid, to) ==
    SortedByLen(SelectSeq(SimplePathsVia(G, <<vid>>, 1),
                          LAMBDA q : q[Len(q)] \in to),
                2, Len(G.vs))

\* NodeCover._get_simple_paths: the cache with the paths of vid in it
GetSimplePaths(N, G, vid) ==
    IF vid \in DOMAIN N.cache
    THEN N.cache
    ELSE N.cache @@ (vid :> AllSimplePaths(G, vid, N.unvisited))

\* CandidatePath(coverage, path), CandidatePath.valid, CandidatePath.__gt__
CandidatePath(coverage, p) ==
    [coverage |-> coverage, path |-> p,
     length |-> IF p # <<>> THEN Len(p) ELSE -1]
Valid(c) == c.length >= 1
Greater(c, d) ==
    IF Valid(c) /\ Valid(d)
    THEN IF c.coverage = d.coverage THEN c.length < d.length
         ELSE c.coverage > d.coverage
    ELSE Valid(c)

\* the loop of _elect over the filtered paths, from path i on
RECURSIVE ElectScan(_, _, _, _, _)
ElectScan(ps, unvisited, i, coverage, temp_path) ==
    IF i > Len(ps)
    THEN CandidatePath(coverage, temp_path)
    ELSE LET covered == Cardinality(unvisited \cap Range(ps[i]))
             coverage2 == IF coverage < covered THEN covered ELSE coverage
             temp_path2 == IF coverage < covered THEN ps[i] ELSE temp_path
         IN  IF covered = Cardinality(unvisited)
             THEN CandidatePath(coverage2, temp_path2)
             ELSE ElectScan(ps, unvisited, i + 1, coverage2, temp_path2)

\* _elect keeping the cached paths that hold no unvisited vertex
ElectUnfiltered(N, vid) ==
    IF N.unvisited = {} \/ N.cache[vid] = <<>>
    THEN [cand |-> CandidatePath(-1, <<>>), cache |-> N.cache]
    ELSE [cand |-> ElectScan(N.cache[vid], N.unvisited, 1, -1, <<>>),
          cache |-> N.cache]

\* NodeCover._elect: the candidate, and the cache with the paths of vid
\* filtered
Elect(N, vid) ==
    IF N.unvisited = {} \/ N.cache[vid] = <<>>
    THEN [cand |-> CandidatePath(-1, <<>>), cache |-> N.cache]
    ELSE LET filtered == SelectSeq(N.cache[vid],
                                   LAMBDA q : N.unvisited \cap Range(q) # {})
         IN  [cand |-> ElectScan(filtered, N.unvisited, 1, -1, <<>>),
              cache |-> [N.cache EXCEPT ![vid] = filtered]]

\* the vertices left unvisited when only the vertices after the first of the
\* path count as visited
VisitAfterFirst(unvisited, p) == unvisited \ Range(Tail(p))

\* NodeCover._update_path: self._unvisited_vids -= set(path)
Visit(unvisited, p) == unvisited \ Range(p)

\* the loop of _update_path deleting the edge it used whether or not another
\* one joins the two vertices
RECURSIVE UpdateStepsDeleteUsed(_, _, _, _)
UpdateStepsDeleteUsed(G, P, p, i) ==
    IF i >= Len(p)
    THEN [g |-> G, paths |-> P, ok |-> TRUE]
    ELSE LET edges == {k \in DOMAIN G.es :
                          G.es[k].tail = G.vs[p[i]] /\ G.es[k].head = G.vs[p[i + 1]]}
         IN  IF edges = {}
             THEN [g |-> G, paths |-> P, ok |-> FALSE]
             ELSE UpdateStepsDeleteUsed(
                    DeleteEdges(G, {Min(edges)}),
                    [P EXCEPT ![Len(P)] =
                        Append(@, Arrow(G.vs[p[i]], G.vs[p[i + 1]],
                                        G.es[Min(edges)].name))],
                    p, i + 1)

\* the loop of _update_path over the steps of the path, from step i on: the
\* first edge joining the two vertices is recorded and, if there are more of
\* them, deleted
RECURSIVE UpdateSteps(_, _, _, _)
UpdateSteps(G, P, p, i) ==
    IF i >= Len(p)
    THEN [g |-> G, paths |-> P, ok |-> TRUE]
    ELSE LET edges == {k \in DOMAIN G.es :
                          G.es[k].tail = G.vs[p[i]] /\ G.es[k].head = G.vs[p[i + 1]]}
         IN  IF edges = {}
             THEN [g |-> G, paths |-> P, ok |-> FALSE]
             ELSE UpdateSteps(
                    IF Cardinality(edges) > 1 THEN DeleteEdges(G, {Min(edges)})
                    ELSE G,
                    [P EXCEPT ![Len(P)] =
                        Append(@, Arrow(G.vs[p[i]], G.vs[p[i + 1]],
                                        G.es[Min(edges)].name))],
                    p, i + 1)

\* _update_path that opens a row only for the first path
UpdatePathOneRow(N, G, P, p) ==
    IF Len(p) < 2
    THEN [nc |-> N, g |-> G, paths |-> P]
    ELSE LET r == UpdateSteps(G, IF P = <<>> THEN Append(P, <<>>) ELSE P, p, 1)
         IN  [nc |-> [N EXCEPT !.unvisited = Visit(@, p),
                               !.current = IF r.ok THEN p[Len(p)] ELSE @],
              g |-> r.g, paths |-> r.paths]

\* NodeCover._update_path
UpdatePath(N, G, P, p) ==
    IF Len(p) < 2
    THEN [nc |-> N, g |-> G, paths |-> P]
    ELSE LET r == UpdateSteps(G, IF N.current # p[1] THEN Append(P, <<>>) ELSE P,
                              p, 1)
         IN  [nc |-> [N EXCEPT !.unvisited = Visit(@, p),
                               !.current = IF r.ok THEN p[Len(p)] ELSE @],
              g |-> r.g, paths |-> r.paths]

\* NodeCover._choose_path
ChoosePath(N, G, P, start_vid) ==
    LET e1 == Elect(N, start_vid)
        N1 == [N EXCEPT !.cache = e1.cache]
        other == N.current \notin {-1, start_vid}
        N2 == IF other
              THEN [N1 EXCEPT !.cache = GetSimplePaths(N1, G, N.current)]
              ELSE N1
        e2 == IF other THEN Elect(N2, N.current)
              ELSE [cand |-> CandidatePath(-1, <<>>), cache |-> N2.cache]
        N3 == [N2 EXCEPT !.cache = e2.cache]
        winner == IF Greater(e1.cand, e2.cand) THEN e1.cand ELSE e2.cand
        u == UpdatePath(N3, G, P, winner.path)
    IN  IF ~(Valid(e1.cand) \/ Valid(e2.cand))
        THEN [nc |-> N3, g |-> G, paths |-> P, path |-> <<>>]
        ELSE [nc |-> u.nc, g |-> u.g, paths |-> u.paths, path |-> winner.path]

\* NodeCover.travel up to its loop: copy the graph, take the longest simple
\* path from the start; a start without any simple path makes
\* start_simple_paths[-1] raise IndexError
NodeTravel ==
    /\ pc = "build"
    /\ \E start \in Nodes(state_machine) :
          LET c == DeepCopyGraph(state_machine)
              G == c.g
              vid == Vid(G, start)
              N0 == [on |-> TRUE, unvisited |-> 1..Len(G.vs), current |-> -1,
                     cache |-> <<>>, path |-> <<>>]
          IN  \E N1 \in {[N0 EXCEPT !.cache = GetSimplePaths(N0, G, vid)]} :
              LET sp == N1.cache[vid]
              IN  /\ strategy' = [kind |-> "node", start |-> start,
                                  shared |-> c.shared, input |-> state_machine]
                  /\ IF sp = <<>>
                     THEN /\ pc' = "raised"
                          /\ err' = "IndexError"
                          /\ nc' = N1
                          /\ graph' = G
                          /\ paths' = <<>>
                          /\ UNCHANGED state_machine
                     ELSE \E u \in {UpdatePath(N1, G, <<>>, sp[Len(sp)])} :
                          /\ pc' = "loop"
                          /\ nc' = [u.nc EXCEPT !.path = sp[Len(sp)]]
                          /\ graph' = u.g
                          /\ paths' = u.paths
                          /\ state_machine' = IF c.shared THEN u.g
                                              ELSE state_machine
                          /\ UNCHANGED err
    /\ UNCHANGED <<exVars, stack, eul>>

\* NodeCover.travel: one round of the loop; travel returns when no path was
\* chosen or the round visited no new vertex
NodeStep ==
    /\ pc = "loop"
    /\ nc.unvisited # {}
    /\ nc.path # <<>>
    /\ \E r \in {ChoosePath(nc, graph, paths, Vid(graph, strategy.start))} :
           /\ nc' = [r.nc EXCEPT !.path = r.path]
           /\ graph' = r.g
           /\ state_machine' = Original(r.g)
           /\ paths' = r.paths
           /\ pc' = IF r.path = <<>>
                       \/ Cardinality(r.nc.unvisited) = Cardinality(nc.unvisited)
                    THEN "done" ELSE "loop"
    /\ UNCHANGED <<exVars, err, strategy, stack, eul>>

\* NodeCover.travel: the loop ends when every vertex is visited
NodeReturn ==
    /\ pc = "loop"
    /\ nc.unvisited = {} \/ nc.path = <<>>
    /\ pc' = "done"
    /\ UNCHANGED <<exVars, state_machine, err, stVars>>

NextNode ==
    \/ BuildAddNode
    \/ BuildAddArc
    \/ NodeTravel
    \/ NodeStep
    \/ NodeReturn

SpecNode == InitStrategy /\ [][NextNode]_vars

\* GraphWrapper.add_node as in BuildAddNode, for graphs of up to MaxCoverNodes
\* vertices
BuildCoverNode ==
    /\ pc = "build"
    /\ Len(state_machine.vs) < MaxCoverNodes
    /\ state_machine' = AddNode(state_machine, VertexNames[Len(state_machine.vs) + 1])
    /\ UNCHANGED <<exVars, pc, err, stVars>>

\* NodeCover on the graphs of up to MaxCoverNodes vertices
NextNodeMore ==
    \/ BuildCoverNode
    \/ BuildAddArc
    \/ NodeTravel
    \/ NodeStep
    \/ NodeReturn

SpecNodeMore == InitStrategy /\ [][NextNodeMore]_vars

\* either strategy travelling a graph
NextTravel ==
    \/ NextEdge
    \/ NextNode

SpecTravel == InitStrategy /\ [][NextTravel]_vars

----------------------------------------------------------------------------
(* A GraphWrapper used from outside: any calls of add_node and add_arc.    *)

\* the vertex names and edge names of the calls; "" is the wildcard of
\* get_arcs
CallNodes == {"", "A", "B"}
CallNames == {"", "1"}

\* g.add_node(name)
GraphAddNode ==
    /\ pc = "build"
    /\ strategy.kind = "none"
    /\ calls.n < MaxCalls
    /\ \E name \in CallNodes :
          LET G == AddNode(state_machine, name)
          IN  /\ state_machine' = G
              /\ calls' = [calls EXCEPT !.n = @ + 1,
                                        !.nodes = @ \cup {name},
                                        !.skipped = IF G = state_machine
                                                    THEN @ + 1 ELSE @]
    /\ UNCHANGED <<sut, event_list, state_matrix, current_state, path, generation, warnings, validators,
                   committed, fired, reentry, nav, lookup, compared, io, pc, err, stVars>>

\* g.add_arc(Arrow(tail, head, name), unique)
GraphAddArc ==
    /\ pc = "build"
    /\ strategy.kind = "none"
    /\ calls.n < MaxCalls
    /\ \E tail \in CallNodes, head \in CallNodes, name \in CallNames,
          unique \in BOOLEAN :
          LET G == AddArc(state_machine, Arrow(tail, head, name), None, unique)
          IN  /\ state_machine' = G
              /\ calls' = [calls EXCEPT !.n = @ + 1,
                                        !.arcs = @ \cup {Arrow(tail, head, name)},
                                        !.unique = @ /\ unique,
                                        !.skipped = IF G = state_machine
                                                    THEN @ + 1 ELSE @]
    /\ UNCHANGED <<sut, event_list, state_matrix, current_state, path, generation, warnings, validators,
                   committed, fired, reentry, nav, lookup, compared, io, pc, err, stVars>>

NextGraph ==
    \/ GraphAddNode
    \/ GraphAddArc

SpecGraph == InitStrategy /\ [][NextGraph]_vars

----------------------------------------------------------------------------
(* Lookups on a graph from outside, with names the graph may not have.     *)

\* the names looked up; the graph never has a vertex "Q"
LookupNames == {"X", "Y", "Q"}

\* the outside variables but lookup
NoLookupVars == <<sut, event_list, state_matrix, current_state, path, generation, warnings, validators,
                  committed, fired, reentry, nav, calls, compared, io>>

\* g.get_arcs(Arrow(tail, head, name))
LookupGetArcs ==
    /\ pc = "build"
    /\ \E tail \in LookupNames \cup {""}, head \in LookupNames \cup {""},
          name \in {"", "a"} :
          lookup' = [op |-> "get_arcs", names |-> {tail, head} \ {""},
                     size |-> Cardinality(GetArcs(state_machine,
                                                  Arrow(tail, head, name))),
                     err |-> "none"]
    /\ pc' = "looked"
    /\ UNCHANGED <<NoLookupVars, state_machine, err, stVars>>

\* g.bfs(name)
LookupBfs ==
    /\ pc = "build"
    /\ \E name \in LookupNames :
          lookup' = [op |-> "bfs", names |-> {name},
                     size |-> Len(Bfs(state_machine, name)), err |-> "none"]
    /\ pc' = "looked"
    /\ UNCHANGED <<NoLookupVars, state_machine, err, stVars>>

\* shortest_path(g.graph, source, target)
LookupShortestPath ==
    /\ pc = "build"
    /\ \E source \in LookupNames, target \in LookupNames :
          LET r == ShortestPathCall(state_machine, source, target)
          IN  lookup' = [op |-> "shortest_path", names |-> {source, target},
                         size |-> Len(r.path), err |-> r.err]
    /\ pc' = "looked"
    /\ UNCHANGED <<NoLookupVars, state_machine, err, stVars>>

NextLookup ==
    \/ BuildAddNode
    \/ BuildAddArc
    \/ LookupGetArcs
    \/ LookupBfs
    \/ LookupShortestPath

SpecLookup == InitStrategy /\ [][NextLookup]_vars

----------------------------------------------------------------------------
(* Arrows compared with one another.                                       *)

\* the strings of the arrows compared, as code points: "a", "ab", "b"
ArrowStrings == {<<1>>, <<1, 2>>, <<2>>}

\* a < b, b < a, b < c, a < c and a == b for any three arrows
CompareArrows ==
    /\ pc = "build"
    /\ \E a, b, c \in [tail : ArrowStrings, head : ArrowStrings,
                       name : ArrowStrings] :
          compared' = [op |-> "lt", a |-> a, b |-> b, c |-> c,
                       ab |-> ArrowLt(a, b), ba |-> ArrowLt(b, a),
                       bc |-> ArrowLt(b, c), ac |-> ArrowLt(a, c),
                       eq |-> ArrowEq(a, b)]
    /\ pc' = "compared"
    /\ UNCHANGED <<sut, event_list, state_matrix, current_state, path, generation, warnings, validators,
                   committed, fired, reentry, nav, calls, lookup, io,
                   state_machine, err, stVars>>

NextArrow == CompareArrows

SpecArrow == InitStrategy /\ [][NextArrow]_vars

----------------------------------------------------------------------------
(* FsmImporter.from_dicts and FsmExporter.to_dict.  A dict is a function;  *)
(* the transition matrix is kept as the sequence of its rows, in the order *)
(* from_dicts iterates them.  The graph carries, besides vs and es, the    *)
(* detail of each vertex; an edge carries its detail and its result.       *)

ImportStates == {"S1", "S2"}
ImportEvents == <<"1", "2">>
StateDetails == {"State 1", "State 2"}
EventDetails == {"Event 1"}
Results == {"Result 1", "Result 2"}

\* the rows a source may have: its events, in order, each with a target
ImportRows ==
    UNION {[1..n -> [event : Range(ImportEvents), target : ImportStates]] :
              n \in 0..Len(ImportEvents)}

\* the transition matrices: rows of different sources, the events of a row
\* different and in the order of ImportEvents
TransitionMatrices ==
    {T \in UNION {[1..n -> [source : ImportStates, trans : ImportRows]] :
                     n \in 0..Cardinality(ImportStates)} :
        /\ \A i, j \in DOMAIN T : T[i].source = T[j].source => i = j
        /\ \A i \in DOMAIN T : \A j, k \in DOMAIN T[i].trans :
              j < k => \E a, b \in DOMAIN ImportEvents :
                          /\ a < b
                          /\ ImportEvents[a] = T[i].trans[j].event
                          /\ ImportEvents[b] = T[i].trans[k].event}

\* the transition matrix as the dict it is
MatrixDict(T) ==
    [s \in {T[i].source : i \in DOMAIN T} |->
        LET row == T[CHOOSE i \in DOMAIN T : T[i].source = s].trans
        IN  [e \in {row[j].event : j \in DOMAIN row} |->
                row[CHOOSE j \in DOMAIN row : row[j].event = e].target]]

\* the state details, the event details and the outputs for the slots of T
StateLists == UNION {[st -> StateDetails] : st \in SUBSET ImportStates}
EventLists == UNION {[ev -> EventDetails] : ev \in SUBSET Range(ImportEvents)}
Outputs(T) ==
    {o \in [DOMAIN MatrixDict(T) ->
               UNION {[ev -> Results] : ev \in SUBSET Range(ImportEvents)}] :
        \A src \in DOMAIN o : DOMAIN o[src] = DOMAIN MatrixDict(T)[src]}

\* dict.get(key, default)
Get(d, key, default) == IF key \in DOMAIN d THEN d[key] ELSE default

\* GraphWrapper() of the importer: no vertex, no edge, no detail
EmptyDetailedGraph == [vs |-> <<>>, es |-> <<>>, detail |-> <<>>]

\* add_node(name, detail): a vertex that exists keeps what it has
AddNodeDetail(G, name, detail) ==
    IF HasNode(G, name) THEN G
    ELSE [G EXCEPT !.vs = Append(@, name), !.detail = @ @@ (name :> detail)]

\* add_arc(arrow, source_detail, target_detail, event_detail,
\* transition_result): nothing if the arrow exists, else the end points that
\* are missing and the edge, with their details
AddArcDetail(G, a, source_detail, target_detail, event_detail, result) ==
    IF GetArcs(G, a) # {}
    THEN G
    ELSE LET G2 == AddNodeDetail(AddNodeDetail(G, a.tail, source_detail),
                                 a.head, target_detail)
         IN  [G2 EXCEPT !.es = Append(@, [tail |-> a.tail, head |-> a.head,
                                          name |-> a.name,
                                          detail |-> event_detail,
                                          result |-> result])]

\* from_dicts, the inner loop over the transitions of one source from the
\* j-th on
RECURSIVE ImportRow(_, _, _, _, _)
ImportRow(G, b, source, row, j) ==
    IF j > Len(row) THEN G
    ELSE LET results == Get(b.O, source, <<>>)
             event == row[j].event
             target == row[j].target
         IN  ImportRow(AddArcDetail(G, Arrow(source, target, event),
                                    Get(b.S, source, ""), Get(b.S, target, ""),
                                    Get(b.E, event, ""),
                                    Get(results, event, <<>>)),
                       b, source, row, j + 1)

\* FsmImporter.from_dicts, the loop over the sources from the i-th on
RECURSIVE FromDicts(_, _, _)
FromDicts(G, b, i) ==
    IF i > Len(b.T) THEN G
    ELSE FromDicts(ImportRow(G, b, b.T[i].source, b.T[i].trans, 1), b, i + 1)

\* to_dict giving every vertex a row of transitions and outputs
ToDictEveryVertex(G) ==
    [T |-> [n \in Range(G.vs) |->
               LET out == {i \in DOMAIN G.es : G.es[i].tail = n}
               IN  [e \in {G.es[i].name : i \in out} |->
                       G.es[Max({i \in out : G.es[i].name = e})].head]],
     S |-> [n \in Range(G.vs) |-> Get(G.detail, n, "")],
     E |-> [e \in {G.es[i].name : i \in DOMAIN G.es} |->
               G.es[Max({i \in DOMAIN G.es : G.es[i].name = e})].detail],
     O |-> [n \in Range(G.vs) |->
               LET out == {i \in DOMAIN G.es : G.es[i].tail = n}
               IN  [e \in {G.es[i].name : i \in out} |->
                       G.es[Max({i \in out : G.es[i].name = e})].result]]]

\* FsmExporter.to_dict: the four dictionaries; a later edge overwrites what
\* an earlier one wrote under the same keys
ToDict(G) ==
    LET sources == {n \in Range(G.vs) : \E i \in DOMAIN G.es : G.es[i].tail = n}
    IN  [T |-> [n \in sources |->
                   LET out == {i \in DOMAIN G.es : G.es[i].tail = n}
                   IN  [e \in {G.es[i].name : i \in out} |->
                           G.es[Max({i \in out : G.es[i].name = e})].head]],
         S |-> [n \in Range(G.vs) |-> Get(G.detail, n, "")],
         E |-> [e \in {G.es[i].name : i \in DOMAIN G.es} |->
                   G.es[Max({i \in DOMAIN G.es : G.es[i].name = e})].detail],
         O |-> [n \in sources |->
                   LET out == {i \in DOMAIN G.es : G.es[i].tail = n}
                   IN  [e \in {G.es[i].name : i \in out} |->
                           G.es[Max({i \in out : G.es[i].name = e})].result]]]

\* a caller holds four dictionaries
InitImport ==
    /\ sut = [state |-> ""]
    /\ event_list = <<>>
    /\ state_matrix = <<>>
    /\ current_state = ""
    /\ path = <<>>
    /\ generation = 0
    /\ warnings = 0
    /\ validators = {}
    /\ err = "none"
    /\ committed = {}
    /\ fired = <<>>
    /\ reentry = {}
    /\ nav = [on |-> FALSE]
    /\ calls = NoCalls
    /\ lookup = [op |-> "none"]
    /\ compared = [op |-> "none"]
    /\ NoStrategy
    /\ state_machine = EmptyDetailedGraph
    /\ pc = "import"
    /\ \E T \in TransitionMatrices, S \in StateLists, E \in EventLists :
          \E O \in Outputs(T) :
             io = [stage |-> "given", in |-> [T |-> T, S |-> S, E |-> E, O |-> O]]

\* the outside variables but io
NoIoVars == <<sut, event_list, state_matrix, current_state, path, generation, warnings, validators,
              committed, fired, reentry, nav, calls, lookup, compared>>

\* imported_graph = FsmImporter().from_dicts(T, S, E, O)
Import ==
    /\ pc = "import"
    /\ state_machine' = FromDicts(EmptyDetailedGraph, io.in, 1)
    /\ io' = [io EXCEPT !.stage = "imported"]
    /\ pc' = "export"
    /\ UNCHANGED <<NoIoVars, err, stVars>>

\* FsmExporter(imported_graph).to_dict()
Export ==
    /\ pc = "export"
    /\ io' = [stage |-> "exported", in |-> io.in, out |-> ToDict(state_machine)]
    /\ pc' = "done"
    /\ UNCHANGED <<NoIoVars, state_machine, err, stVars>>

NextImport ==
    \/ Import
    \/ Export

SpecImport == InitImport /\ [][NextImport]_vars

----------------------------------------------------------------------------
(* Properties of the Explorer.                                             *)

\* C1: when explore returns without raising, every state of the maze is
\* mature: no transition slot of any maze entry is None.
C1_MatureOnReturn ==
    pc = "done" =>
        \A s \in DOMAIN state_matrix : \A e \in DOMAIN state_matrix[s] :
            state_matrix[s][e] # None

\* explore has returned after learning every state, having gone back to
\* immature states more than once
C1_Witness ==
    /\ pc = "done"
    /\ Cardinality(DOMAIN state_matrix) >= 3
    /\ generation >= 3

\* C2: on a deterministic SUT with finitely many valid states and a working
\* reset, explore returns and raises no error.
C2_ExploreReturnsWithoutError == pc # "raised" /\ err = "none"

\* C3: every transition (s, e, t) committed on an empty slot stays recorded:
\* maze[s].transitions[e] = t, and with s and t valid the graph has the arrow
\* (s, t, e), in every later state.
C3_CommittedRecorded ==
    \A c \in committed :
        /\ c[1] \in DOMAIN state_matrix
        /\ state_matrix[c[1]][c[2]] = c[3]
        /\ (IsValid(c[1]) /\ IsValid(c[3])) =>
              GetArcs(state_machine, Arrow(c[1], c[3], c[2])) # {}

\* two events lead from one state to the same other state, and exploring
\* went on after both were committed
C3_Witness ==
    /\ pc = "done"
    /\ \E c, d \in committed :
          c[1] = d[1] /\ c[3] = d[3] /\ c[2] # d[2] /\ c[1] # c[3]

\* C4: a filled slot of the maze is never replaced by a different value and
\* no state is ever removed from the maze, so a mature state stays mature.
C4_MazeMonotone ==
    [][\A s \in DOMAIN state_matrix :
          /\ s \in DOMAIN state_matrix'
          /\ \A e \in DOMAIN state_matrix[s] :
                state_matrix[s][e] # None =>
                    state_matrix'[s][e] = state_matrix[s][e]]_vars

\* a transition is being recorded into a mature state while another state is
\* still immature
C4_Witness ==
    /\ pc = "discover"
    /\ generation >= 1
    /\ \E s, t \in DOMAIN state_matrix :
          /\ IsMatureState(state_matrix, s)
          /\ ~IsMatureState(state_matrix, t)
          /\ \E c \in committed : c[3] = s /\ c[1] = t

\* _discover("Idle") was entered from outside when Initialize on Idle was
\* already recorded as Running
ReenteredIdle ==
    \E r \in reentry : r.state = "Idle" /\ r.row["Initialize"] = "Running"

\* C5, as stated: entering _discover(Idle) again after the first firing of
\* Initialize was recorded fires Initialize a second time and raises the
\* ambiguous behaviour error.
C5_ReentryRaisesAmbiguous ==
    (ReenteredIdle /\ pc \in {"explore", "done", "raised"}) =>
        /\ fired[<<"Idle", "Initialize">>] = 2
        /\ err = "RuntimeError"

\* C5, amended: entering _discover(Idle) again after the first firing of
\* Initialize was recorded skips Initialize: it is fired once in all, the
\* slot keeps Running and no ambiguous behaviour error is raised.
C5_ReentrySkipsRecorded ==
    ReenteredIdle =>
        /\ fired[<<"Idle", "Initialize">>] = 1
        /\ state_matrix["Idle"]["Initialize"] = "Running"
        /\ err # "RuntimeError"

\* the second call of _discover(Idle) has fired an event and has returned,
\* with the SUT ready to answer Initialize on Idle with Paused
C5_Witness ==
    /\ pc \in {"explore", "done"}
    /\ <<"Idle", "Initialize">> \in sut.fired
    /\ \E r \in reentry :
          /\ r.state = "Idle"
          /\ r.row["Initialize"] = "Running"
          /\ r.row["Reset"] = None
          /\ state_matrix["Idle"]["Reset"] # None

\* the edges of the learned graph for event e on state s
CellEdges(s, e) ==
    {i \in DOMAIN state_machine.es :
        state_machine.es[i].tail = s /\ state_machine.es[i].name = e}

\* C6: explore(Idle) on the four-state toggle ends with a maze of exactly 4
\* states whose 7 defined transitions are recorded with their targets, and
\* every other (state, event) cell records the rejection: the state is
\* unchanged and the output is the error.
C6_ToggleMaze ==
    /\ pc # "raised"
    /\ pc = "done" =>
        /\ DOMAIN state_matrix = Range(AppStates)
        /\ \A s \in Range(AppStates) : \A e \in AppEvents :
              /\ state_matrix[s][e] =
                    IF transition_table[s][e] # Undefined
                    THEN transition_table[s][e] ELSE s
              /\ Cardinality(CellEdges(s, e)) = 1
              /\ \A i \in CellEdges(s, e) :
                    /\ state_machine.es[i].head = state_matrix[s][e]
                    /\ state_machine.es[i].result =
                          IF transition_table[s][e] # Undefined
                          THEN "success" ELSE "error"
        /\ Cardinality({i \in DOMAIN state_machine.es :
                          state_machine.es[i].result = "success"}) = 7

\* explore has returned on the toggle after replaying paths to immature states
C6_Witness ==
    /\ pc = "done"
    /\ Len(state_machine.es) = 20
    /\ generation >= 3
    /\ event_list = <<"Initialize", "Reset", "Pause", "Stop", "Resume">>

----------------------------------------------------------------------------
(* Properties of EdgeCover and eulerize.                                   *)

RECURSIVE SeqToBag(_)
SeqToBag(s) ==
    IF s = <<>> THEN EmptyBag ELSE SeqToBag(Tail(s)) (+) SetToBag({Head(s)})

\* EdgeCover.travel has returned its walk
EdgeTravelled == strategy.kind = "edge" /\ pc = "done"

\* the arrows the walk traverses: from each entry's vertex to the next
\* entry's vertex by the next entry's incoming edge
WalkArrows ==
    [i \in 1..(Len(paths) - 1) |->
        Arrow(paths[i][1], paths[i + 1][1], paths[i + 1][2])]

\* the edges of the Eulerized working copy whose tail a directed path from
\* the start vertex reaches
ReachableEdges ==
    LET reach == Range(BfsVisit(eul.g, "out", <<strategy.start>>, 1))
    IN  SelectSeq(eul.g.es, LAMBDA e : e.tail \in reach)

\* the start vertex is where an Euler walk of the working copy begins
StartFits ==
    \/ eul.class = "CIRCUIT"
    \/ eul.class = "PATH" /\ Diff(eul.g, strategy.start) = 1

C8_NoneRaisesNotEulerizable ==
    (strategy.kind = "edge" /\ pc \in {"done", "raised"} /\ eul.class = "NONE")
        => (pc = "raised" /\ err = "NotEulerizable")

\* the edges of G with k[i] more copies of edge i
RECURSIVE Copies(_, _, _)
Copies(G, k, i) ==
    IF i > Len(G.es) THEN <<>>
    ELSE Repeat(<<G.es[i]>>, k[i]) \o Copies(G, k, i + 1)

\* G can be made Eulerian by duplicating existing edges, each at most MaxDup
\* times
Balanceable(G) ==
    \E k \in [DOMAIN G.es -> 0..MaxDup] :
        IsEulerian([G EXCEPT !.es = @ \o Copies(G, k, 1)]) # "NONE"

\* C10: on a weakly connected graph eulerize returns what is_eulerian says of
\* the graph it leaves, and it returns CIRCUIT or PATH whenever duplicating
\* edges can make the graph Eulerian (NONE only if that is impossible).
C10_EulerizeBalances ==
    (strategy.kind = "eulerize" /\ pc = "done" /\ IsConnected(eul.orig)) =>
        /\ eul.ret = eul.class
        /\ Balanceable(eul.orig) => eul.ret \in {"CIRCUIT", "PATH"}

----------------------------------------------------------------------------
(* Properties of NodeCover.                                                *)

\* C9: when NodeCover.travel returns, unvisited_nodes is exactly the set of
\* the vertices that no directed path from the start vertex reaches, the
\* start vertex counting as reached.
C9_UnvisitedAreUnreachable ==
    (strategy.kind = "node" /\ pc = "done") =>
        {state_machine.vs[i] : i \in nc.unvisited}
            = Nodes(state_machine)
                \ Range(BfsVisit(state_machine, "out", <<strategy.start>>, 1))

\* travel has returned its path, leaving unvisited a vertex that has
\* an edge into the visited part of the graph
C9_Witness ==
    /\ strategy.kind = "node"
    /\ pc = "done"
    /\ nc.unvisited # {}
    /\ Len(paths) >= 1
    /\ Len(paths[1]) >= 1
    /\ \E i \in nc.unvisited : \E k \in DOMAIN state_machine.es :
          /\ state_machine.es[k].tail = state_machine.vs[i]
          /\ state_machine.es[k].head = strategy.start

----------------------------------------------------------------------------
(* Properties of eulerize and is_eulerian.                                 *)

RECURSIVE SumAbsDiff(_, _)
SumAbsDiff(G, i) ==
    IF i > Len(G.vs) THEN 0
    ELSE (IF Diff(G, G.vs[i]) < 0 THEN 0 - Diff(G, G.vs[i]) ELSE Diff(G, G.vs[i]))
         + SumAbsDiff(G, i + 1)

\* the total imbalance of a graph: the sum over its vertices of |out - in|
Imbalance(G) == SumAbsDiff(G, 1)

\* C11: every round of the loop of eulerize that duplicates a path from the
\* sink to the hub lowers the total imbalance by at least 2, and the rounds
\* are at most half the imbalance of the graph eulerize was given.
C11_EulerizeLowersImbalance ==
    [][(pc = "eulerize" /\ pc' = "eulerize") =>
          /\ Imbalance(state_machine') <= Imbalance(state_machine) - 2
          /\ 2 * eul'.iter <= Imbalance(eul.orig)]_vars

\* eulerize has returned after duplicating a path
C11_Witness ==
    /\ strategy.kind = "eulerize"
    /\ pc = "done"
    /\ eul.iter >= 1
    /\ Len(state_machine.es) > Len(eul.orig.es)
    /\ Imbalance(state_machine) < Imbalance(eul.orig)

\* every two parts the vertices of G split into are joined by an edge
WeaklyConnected(G) ==
    /\ G.vs # <<>>
    /\ \A S \in SUBSET Nodes(G) :
          (S # {} /\ S # Nodes(G)) =>
              \E k \in DOMAIN G.es :
                  (G.es[k].tail \in S) # (G.es[k].head \in S)

\* the vertices of G whose out-degree minus in-degree is d
WithDiff(G, d) == {v \in Nodes(G) : Diff(G, v) = d}

\* C12: is_eulerian returns NONE if the graph is not weakly connected (the
\* empty graph is not), or a vertex has |out - in| > 1, or more than one
\* vertex has out - in = +1, or more than one has -1; otherwise CIRCUIT if
\* every vertex is balanced (a single vertex without edges included), and
\* PATH if exactly one vertex has +1, exactly one has -1 and the others are
\* balanced.
C12_IsEulerianClassifies ==
    strategy.kind = "eulerize" =>
        LET G == eul.orig
            none == \/ ~WeaklyConnected(G)
                    \/ \E v \in Nodes(G) : Diff(G, v) > 1 \/ Diff(G, v) < -1
                    \/ Cardinality(WithDiff(G, 1)) > 1
                    \/ Cardinality(WithDiff(G, -1)) > 1
        IN  /\ none => eul.first = "NONE"
            /\ (~none /\ WithDiff(G, 0) = Nodes(G)) => eul.first = "CIRCUIT"
            /\ (~none /\ Cardinality(WithDiff(G, 1)) = 1
                      /\ Cardinality(WithDiff(G, -1)) = 1
                      /\ WithDiff(G, 0) = Nodes(G) \ (WithDiff(G, 1) \cup WithDiff(G, -1)))
                  => eul.first = "PATH"
            /\ eul.first \in {"NONE", "CIRCUIT", "PATH"}
            /\ eul.first = "CIRCUIT" => WithDiff(G, 0) = Nodes(G)
            /\ eul.first = "PATH" => Cardinality(WithDiff(G, 1)) = 1

\* is_eulerian has said PATH of a graph of three vertices with parallel edges
C12_Witness ==
    /\ strategy.kind = "eulerize"
    /\ eul.first = "PATH"
    /\ Len(eul.orig.vs) = 3
    /\ \E i, j \in DOMAIN eul.orig.es :
          /\ i # j
          /\ eul.orig.es[i].tail = eul.orig.es[j].tail
          /\ eul.orig.es[i].head = eul.orig.es[j].head

----------------------------------------------------------------------------
(* Properties of both strategies.                                          *)

\* C13: EdgeCover.travel and NodeCover.travel work on a clone: when travel
\* has returned, state_machine.graph has the vertices and the multiset of
\* edges it had before the call, whatever the strategy deleted or added.
C13_TravelKeepsStateMachine ==
    (strategy.kind \in {"edge", "node"} /\ pc = "done") =>
        /\ state_machine.vs = strategy.input.vs
        /\ SeqToBag(state_machine.es) = SeqToBag(strategy.input.es)

\* EdgeCover.travel has returned after eulerize added edges to the working
\* copy and _dfs deleted every edge of it
C13_Witness ==
    /\ EdgeTravelled
    /\ Len(eul.g.es) > Len(state_machine.es)
    /\ graph.es = <<>>
    /\ state_machine.es # <<>>

\* NodeCover.travel has returned after deleting a parallel edge of its
\* working copy
C13_WitnessNode ==
    /\ strategy.kind = "node"
    /\ pc = "done"
    /\ Len(graph.es) < Len(state_machine.es)

----------------------------------------------------------------------------
(* Properties of _go_to_nearest_immature_state, read from the history nav  *)
(* of its latest call.                                                     *)

\* the states reached from the states S by at most k arcs of G
RECURSIVE ReachWithin(_, _, _)
ReachWithin(G, S, k) ==
    IF k = 0 THEN S
    ELSE ReachWithin(G, S \cup {G.es[i].head : i \in {j \in DOMAIN G.es :
                                                        G.es[j].tail \in S}},
                     k - 1)

\* the immature states of the matrix M
Immature(M) == {n \in DOMAIN M : ~IsMatureState(M, n)}

\* no walk is as long as this
Far(G) == Len(G.vs) + 1

\* the number of arcs from s to the nearest immature state, Far(G) if s
\* reaches none
ImmatureDist(M, G, s) ==
    LET ks == {k \in 0..Len(G.vs) : ReachWithin(G, {s}, k) \cap Immature(M) # {}}
    IN  IF ks = {} THEN Far(G) ELSE Min(ks)

\* the states where firing the events evs in order from s ends, along G
RECURSIVE WalkEnds(_, _, _)
WalkEnds(G, s, evs) ==
    IF evs = <<>> THEN {s}
    ELSE UNION {WalkEnds(G, G.es[i].head, Tail(evs)) :
                   i \in {j \in DOMAIN G.es : /\ G.es[j].tail = s
                                              /\ G.es[j].name = Head(evs)}}

\* the calls of sut.reset() and the events fired by the latest call
NavResets == SelectSeq(nav.log, LAMBDA x : x.op = "reset")
NavFired == LET f == SelectSeq(nav.log, LAMBDA x : x.op = "fire")
            IN  [i \in DOMAIN f |-> f[i].event]

\* the latest call is over: it returned or raised
NavOver == nav.on /\ pc # "execute"

\* the latest call replayed a shortest walk from the state from to the
\* nearest immature state, and returned the state the SUT is left in
NavReplayed(from) ==
    /\ nav.returned
    /\ Len(NavFired) = ImmatureDist(nav.M, nav.G, from)
    /\ nav.ret \in WalkEnds(nav.G, from, NavFired)
    /\ nav.ret \in Immature(nav.M)
    /\ nav.end = nav.ret

\* C14: when the current state is mature, is not the initial state and
\* reaches no immature state, while the initial state is mature and reaches
\* an immature state, _go_to_nearest_immature_state calls sut.reset() once,
\* before any event, fires the events of a shortest path from the initial
\* state to its nearest immature state and returns that state, where the SUT
\* is.
C14_ReplayViaReset ==
    (/\ NavOver
     /\ nav.source # initial_state
     /\ nav.source \notin Immature(nav.M)
     /\ initial_state \notin Immature(nav.M)
     /\ ImmatureDist(nav.M, nav.G, nav.source) = Far(nav.G)
     /\ ImmatureDist(nav.M, nav.G, initial_state) < Far(nav.G))
    => /\ Len(NavResets) = 1
       /\ nav.log[1].op = "reset"
       /\ NavReplayed(initial_state)

\* C15: when src is mature, _go_to_nearest_immature_state replays the shorter
\* of path_cur (from src) and path_init (from the initial state, if src is
\* another state), path_cur on a tie, and calls sut.reset() if and only if
\* the replayed route starts from the initial state.
C15_ReplaysShorterPath ==
    (/\ NavOver
     /\ nav.source \notin Immature(nav.M))
    => LET cur == ImmatureDist(nav.M, nav.G, nav.source)
           init == IF nav.source # initial_state
                   THEN ImmatureDist(nav.M, nav.G, initial_state) ELSE Far(nav.G)
       IN  IF cur <= init
           THEN NavReplayed(nav.source) /\ NavResets = <<>>
           ELSE /\ NavReplayed(initial_state)
                /\ Len(NavResets) = 1
                /\ nav.log[1].op = "reset"

\* the same for the calls whose source reaches an immature state
C15_ReplaysShorterPathIfReached ==
    (/\ NavOver
     /\ nav.source \notin Immature(nav.M)
     /\ ImmatureDist(nav.M, nav.G, nav.source) < Far(nav.G))
    => C15_ReplaysShorterPath

\* a replay from the current state, and one after a reset
C15_WitnessCurrent ==
    /\ NavOver
    /\ nav.source \notin Immature(nav.M)
    /\ nav.source # initial_state
    /\ NavResets = <<>>
    /\ NavFired # <<>>
C15_WitnessReset ==
    /\ NavOver
    /\ nav.source \notin Immature(nav.M)
    /\ NavResets # <<>>
    /\ NavFired # <<>>

\* C16: if src is immature, _go_to_nearest_immature_state returns src and
\* moves nothing: it fires no event, does not call sut.reset() and leaves
\* the maze and the graph as they are.
C16_ImmatureSourceStays ==
    [][(pc = "explore" /\ ~Mature(state_matrix)
            /\ current_state \in Immature(state_matrix))
        => /\ nav'.returned
           /\ nav'.ret = current_state
           /\ nav'.log = <<>>
           /\ sut' = sut
           /\ state_matrix' = state_matrix
           /\ state_machine' = state_machine
           /\ current_state' = current_state
           /\ pc' = "discover"]_vars

\* a call on an immature source has returned, the SUT where it was
C16_Witness ==
    /\ nav.on
    /\ nav.source \in Immature(nav.M)
    /\ nav.end = nav.at
    /\ nav.returned
    /\ nav.ret = nav.source
    /\ nav.log = <<>>

----------------------------------------------------------------------------
(* Properties of GraphWrapper.                                             *)

\* the edges of G carrying the triple of the arrow a
Carrying(G, a) == {i \in DOMAIN G.es : EdgeToArrow(G.es[i]) = a}

\* C17: after any add_node and add_arc(arrow, unique=True) calls no two
\* edges carry the same (tail, head, name), and every triple handed to
\* add_arc is an edge of its own, whatever other edges join the same pair.
C17_OneEdgePerTriple ==
    calls.unique =>
        /\ \A i, j \in DOMAIN state_machine.es :
              EdgeToArrow(state_machine.es[i]) = EdgeToArrow(state_machine.es[j])
                  => i = j
        /\ \A a \in calls.arcs : Cardinality(Carrying(state_machine, a)) = 1

\* the same for the arrows without an empty field
C17_OneEdgePerNamedTriple ==
    calls.unique =>
        /\ \A i, j \in DOMAIN state_machine.es :
              EdgeToArrow(state_machine.es[i]) = EdgeToArrow(state_machine.es[j])
                  => i = j
        /\ \A a \in calls.arcs :
              (a.tail # "" /\ a.head # "" /\ a.name # "")
                  => Cardinality(Carrying(state_machine, a)) = 1

\* C18: after any add_node and add_arc calls the vertex names are unique and
\* both end points of every edge are vertices.
C18_VerticesUniqueEndPointsExist ==
    /\ \A i, j \in DOMAIN state_machine.vs :
          state_machine.vs[i] = state_machine.vs[j] => i = j
    /\ \A i \in DOMAIN state_machine.es :
          /\ HasNode(state_machine, state_machine.es[i].tail)
          /\ HasNode(state_machine, state_machine.es[i].head)
    /\ calls.nodes \subseteq Nodes(state_machine)

\* a call changed nothing and add_arc added an end point no add_node named
C18_Witness ==
    /\ calls.n > 0
    /\ calls.skipped > 0
    /\ \E i \in DOMAIN state_machine.es :
          /\ state_machine.es[i].tail \notin calls.nodes
          /\ state_machine.es[i].head \in calls.nodes

\* the latest lookup named a vertex the graph does not have
LookupUnknown ==
    /\ lookup.op # "none"
    /\ ~(lookup.names \subseteq Nodes(state_machine))

\* C19: a lookup with a name that is not in the graph returns an empty
\* result and does not raise: get_arcs with an unknown tail or head, bfs from
\* an unknown vertex, shortest_path with an unknown source or target.
C19_UnknownNamesGiveEmpty ==
    LookupUnknown => (lookup.err = "none" /\ lookup.size = 0)

\* the same for get_arcs and bfs alone
C19_UnknownNamesGiveEmptyInWrapper ==
    (LookupUnknown /\ lookup.op \in {"get_arcs", "bfs"})
        => (lookup.err = "none" /\ lookup.size = 0)

\* get_arcs was asked for the arcs from a vertex to an unknown one, in a
\* graph that has edges
C19_WitnessWrapper ==
    /\ LookupUnknown
    /\ lookup.op = "get_arcs"
    /\ lookup.names \cap Nodes(state_machine) # {}
    /\ state_machine.es # <<>>

----------------------------------------------------------------------------
(* Properties of Arrow.                                                    *)

\* x before y in the order of (tail, head, name) read field by field
LexLt(x, y) ==
    \/ StrLt(x.tail, y.tail)
    \/ x.tail = y.tail /\ StrLt(x.head, y.head)
    \/ x.tail = y.tail /\ x.head = y.head /\ StrLt(x.name, y.name)

\* C20: Arrow.__lt__ is the lexicographic order on (tail, head, name); it is
\* asymmetric and transitive, and of a < b, b < a and a == b exactly one
\* holds.
C20_ArrowStrictTotalOrder ==
    compared.op = "lt" =>
        /\ compared.ab = LexLt(compared.a, compared.b)
        /\ compared.ab => ~compared.ba
        /\ (compared.ab /\ compared.bc) => compared.ac
        /\ \/ compared.ab /\ ~compared.ba /\ ~compared.eq
           \/ ~compared.ab /\ compared.ba /\ ~compared.eq
           \/ ~compared.ab /\ ~compared.ba /\ compared.eq

\* three arrows in a row that differ in the name, the head and the tail
C20_Witness ==
    /\ compared.op = "lt"
    /\ compared.ab /\ compared.bc /\ compared.ac
    /\ compared.a.tail = compared.b.tail
    /\ compared.a.head = compared.b.head
    /\ compared.a.name # compared.b.name
    /\ compared.b.tail # compared.c.tail
    /\ StrLt(compared.c.head, compared.b.head)

----------------------------------------------------------------------------
(* Properties of the importer and the exporter.                            *)

\* the states and the events a transition matrix names
MatrixStates(T) ==
    {T[i].source : i \in DOMAIN T}
        \cup UNION {{T[i].trans[j].target : j \in DOMAIN T[i].trans} :
                       i \in DOMAIN T}
MatrixEvents(T) ==
    UNION {{T[i].trans[j].event : j \in DOMAIN T[i].trans} : i \in DOMAIN T}

\* a bundle is well formed: every row has a transition, the state details
\* are those of the states of the matrix, the event details those of its
\* events, and the outputs have the slots of the matrix
WellFormed(b) ==
    /\ \A i \in DOMAIN b.T : b.T[i].trans # <<>>
    /\ DOMAIN b.S = MatrixStates(b.T)
    /\ DOMAIN b.E = MatrixEvents(b.T)
    /\ DOMAIN b.O = DOMAIN MatrixDict(b.T)
    /\ \A s \in DOMAIN b.O : DOMAIN b.O[s] = DOMAIN MatrixDict(b.T)[s]

C21_RoundTripWithEmptyRows ==
    (/\ io.stage = "exported"
     /\ DOMAIN io.in.S = MatrixStates(io.in.T)
     /\ DOMAIN io.in.E = MatrixEvents(io.in.T))
    => /\ io.out.T = MatrixDict(io.in.T)
       /\ io.out.S = io.in.S

----------------------------------------------------------------------------
(* Properties of eulerize on the graph of test_eulerize.                   *)

\* C22: for the graph A->B, A->C, A->D, B->C, B->D, C->D, D->A eulerize
\* leaves a graph that is_eulerian calls CIRCUIT, and it adds at least half
\* of the initial total imbalance in edges.
C22_SampleBecomesCircuit ==
    (strategy.kind = "eulerize" /\ pc = "done") =>
        /\ IsEulerian(state_machine) = "CIRCUIT"
        /\ eul.ret = "CIRCUIT"
        /\ 2 * (Len(state_machine.es) - Len(eul.orig.es)) >= Imbalance(eul.orig)

\* eulerize returned for the graph loaded in the order of input_data, after
\* two rounds that added five edges to its seven
C22_Witness ==
    /\ strategy.kind = "eulerize"
    /\ pc = "done"
    /\ eul.orig.vs = <<"A", "B", "C", "D">>
    /\ [i \in 1..7 |-> eul.orig.es[i].head] = <<"B", "C", "D", "C", "D", "D", "A">>
    /\ Imbalance(eul.orig) = 6
    /\ eul.iter = 2
    /\ Len(state_machine.es) = 12

----------------------------------------------------------------------------
(* Properties of explore on a deterministic SUT.                           *)

\* _discover is called on, or has returned, the state the SUT is in
DiscoverTracksSut ==
    pc \in {"discover", "explore", "done"} => sut.state = current_state

\* the latest call of _go_to_nearest_immature_state returned the name of the
\* state it left the SUT in
NavTracksSut == (nav.on /\ nav.returned) => nav.end = nav.ret

\* C23: during explore on a deterministic SUT the Explorer's current state
\* is the state of the SUT: at every call of _discover, when _discover
\* returns, and when _go_to_nearest_immature_state returns a name.
C23_CurrentStateIsSutState == DiscoverTracksSut /\ NavTracksSut

\* the number of slots of the matrix M that are filled
RECURSIVE SumOver(_, _)
SumOver(f, S) ==
    IF S = {} THEN 0
    ELSE LET x == CHOOSE y \in S : TRUE IN f[x] + SumOver(f, S \ {x})
Filled(M) ==
    SumOver([n \in DOMAIN M |->
                Cardinality({e \in DOMAIN M[n] : M[n][e] # None})], DOMAIN M)

\* a step in which _go_to_nearest_immature_state returns gives _discover an
\* immature state of the maze
YieldsImmature ==
    (pc \in {"explore", "execute"} /\ pc' = "discover")
        => current_state' \in Immature(state_matrix')

\* a step in which _discover returns to explore ends an iteration that
\* filled a slot
IterationFills ==
    (pc = "discover" /\ pc' = "explore") => Filled(state_matrix) > Filled(nav.M)

\* _discover on a mature state returns it and fires nothing
MatureReturnsAtOnce ==
    (/\ pc = "discover"
     /\ current_state \in DOMAIN state_matrix
     /\ IsMatureState(state_matrix, current_state))
    => /\ fired' = fired
       /\ sut' = sut
       /\ current_state' = current_state
       /\ pc' = "explore"

\* C24: every iteration of the explore loop fills at least one empty slot:
\* _go_to_nearest_immature_state yields an immature state, the _discover
\* that follows records a new transition before it returns, and _discover
\* on a mature state returns it without firing an event.
C24_EveryIterationFillsASlot ==
    [][/\ pc = "explore" => pc' \in {"discover", "execute", "done"}
       /\ YieldsImmature
       /\ IterationFills
       /\ MatureReturnsAtOnce]_vars

\* the same for the iterations that do not raise
C24_CompletedIterationFillsASlot ==
    [][YieldsImmature /\ IterationFills /\ MatureReturnsAtOnce]_vars

\* C25: whenever the maze is not mature, _go_to_nearest_immature_state
\* returns the name of an immature state of the maze: never the empty string,
\* and it never executes the placeholder path, so explore never calls
\* _discover with a missing state.
C25_ReturnsImmatureState ==
    /\ (nav.on /\ nav.returned) => nav.ret \in Immature(nav.M)
    /\ nav.on => (nav.returned \/ pc = "execute")
    /\ err = "none"

\* the same for the calls whose source reaches an immature state along the
\* edges
C25_ReturnsImmatureStateIfReached ==
    (nav.on /\ ImmatureDist(nav.M, nav.G, nav.source) < Far(nav.G))
        => /\ nav.returned => nav.ret \in Immature(nav.M)
           /\ nav.returned \/ pc = "execute"
           /\ err = "none"

\* the number of arcs of a shortest walk from s to t in G, Far(G) if there
\* is none
Dist(G, s, t) ==
    LET ks == {k \in 0..Len(G.vs) : t \in ReachWithin(G, {s}, k)}
    IN  IF ks = {} THEN Far(G) ELSE Min(ks)

\* C26: _find_nearest_immature_state(source) returns an immature state at the
\* least distance along the edges among the immature states reachable from
\* source, and the empty string exactly when none is reachable.
C26_NearestIsDirectedNearest ==
    (nav.on /\ nav.target # Unset) =>
        IF ImmatureDist(nav.M, nav.G, nav.source) = Far(nav.G)
        THEN nav.target = ""
        ELSE /\ nav.target \in Immature(nav.M)
             /\ Dist(nav.G, nav.source, nav.target)
                    = ImmatureDist(nav.M, nav.G, nav.source)

\* the same with the distance counted over edges taken in either direction
C26_NearestIsReachedSomehow ==
    (nav.on /\ nav.target # Unset) =>
        /\ nav.target = "" <=> Immature(nav.M) = {}
        /\ nav.target # "" => nav.target \in Immature(nav.M)

\* _go_to_nearest_immature_state is called on a mature state other than the
\* initial state while the initial state is immature
ShortcutCase ==
    /\ nav.on
    /\ nav.source # initial_state
    /\ IsMatureState(nav.M, nav.source)
    /\ ~IsMatureState(nav.M, initial_state)

\* C27: called on a mature state other than the initial state while the
\* initial state is immature, _go_to_nearest_immature_state resets the SUT
\* exactly once, fires no event and returns the name of the initial state,
\* whether or not the source reaches an immature state.
C27_ShortcutResetsOnce ==
    ShortcutCase =>
        /\ nav.log = <<[op |-> "reset"]>>
        /\ nav.returned
        /\ nav.ret = initial_state
        /\ nav.end = initial_state

\* the shortcut is taken although the source reaches an immature state
C27_Witness ==
    /\ ShortcutCase
    /\ nav.returned
    /\ nav.at # initial_state
    /\ ImmatureDist(nav.M, nav.G, nav.source) < Far(nav.G)

\* the shortcut is taken when the source reaches no immature state
C27_WitnessUnreached ==
    /\ ShortcutCase
    /\ nav.returned
    /\ nav.at # initial_state
    /\ ImmatureDist(nav.M, nav.G, nav.source) = Far(nav.G)

\* C28: the iteration limit is a warning only: when the generation exceeds it
\* explore logs and keeps looping without changing the maze or the SUT, and
\* explore returns only when the maze is mature or an error is raised.
C28_LimitIsWarningOnly ==
    /\ [][warnings' > warnings =>
             /\ generation' > MaxPaths(event_list)
             /\ sut' = sut
             /\ state_matrix' = state_matrix
             /\ state_machine' = state_machine
             /\ err' = err
             /\ pc' = "explore"]_vars
    /\ [](generation > MaxPaths(event_list) => warnings > 0)
    /\ [](pc = "done" => Mature(state_matrix))
    /\ [](pc = "raised" => err # "none")

\* explore is in a further iteration after it logged the warning
C28_Witness ==
    /\ warnings > 0
    /\ generation > MaxPaths(event_list)
    /\ pc = "discover"
    /\ ~Mature(state_matrix)
    /\ err = "none"

\* the transitions committed in this step whose source is valid and whose
\* target is not
InvalidCommitted ==
    {c \in committed' \ committed : IsValid(c[1]) /\ ~IsValid(c[3])}

\* an invalid target is recorded in the slot of the matrix and nowhere else
C29_InvalidTargetRecordedOnly ==
    [][\A c \in InvalidCommitted :
          /\ state_matrix'[c[1]][c[2]] = c[3]
          /\ DOMAIN state_matrix' = DOMAIN state_matrix
          /\ state_machine' = state_machine
          /\ err' = "none"]_vars

\* C29: when firing e at a valid state s makes the SUT report an invalid
\* state t, the Explorer records t in maze[s].transitions[e] without adding
\* t to the maze and without adding any vertex or edge, and the exploration
\* continues without raising.
C29_InvalidTargetContinues ==
    /\ C29_InvalidTargetRecordedOnly
    /\ []((\E c \in committed : IsValid(c[1]) /\ ~IsValid(c[3]))
            => err = "none")

\* C30: if a configured validator raises InvalidTransition, _set_transition
\* propagates it before committing anything: no state is added, no slot is
\* filled, no edge is added, and explore stops with that error.
C30_ValidatorRejectsBeforeCommit ==
    /\ [][(fired' # fired
            /\ <<current_state,
                 NextEvent(state_matrix, event_list, current_state),
                 sut'.state>> \in validators)
           => /\ err' = "InvalidTransition"
              /\ pc' = "raised"
              /\ state_matrix' = state_matrix
              /\ state_machine' = state_machine
              /\ committed' = committed]_vars
    /\ [][err = "InvalidTransition" => UNCHANGED vars]_vars
    /\ [](err = "InvalidTransition" => pc = "raised")

\* explore stopped on a rejected transition into a state it had not seen
C30_Witness ==
    /\ err = "InvalidTransition"
    /\ pc = "raised"
    /\ committed # {}
    /\ \E v \in validators :
          /\ sut.state = v[3]
          /\ v[3] \notin DOMAIN state_matrix
          /\ state_matrix[v[1]][v[2]] = None

\* the latest outside call was _set_transition on a slot that was filled
SetOnFilled == lookup.op = "set_transition" /\ lookup.old # None

\* C31: _set_transition on a slot already filled with t' raises the
\* ambiguous-behaviour error when t' # t and leaves that slot and the graph
\* unchanged; when t' = t it changes no slot and adds no second edge.
C31_FilledSlotRaisesOrNoOp ==
    SetOnFilled =>
        IF lookup.old # lookup.target
        THEN /\ err = "RuntimeError"
             /\ state_matrix[lookup.source][lookup.event] = lookup.old
             /\ state_machine = lookup.G
        ELSE /\ err = "none"
             /\ state_matrix = lookup.M
             /\ state_machine = lookup.G

\* C31 amended: on a slot filled with t' # t the error is raised after the
\* target state was added: every slot and every edge is as before, and a
\* valid target the maze did not have is now a state of the maze with empty
\* slots and a vertex of the graph; with t' = t nothing changes.
C31_FilledSlotRaisesAfterAddingTarget ==
    SetOnFilled =>
        IF lookup.old # lookup.target
        THEN /\ err = "RuntimeError"
             /\ \A x \in DOMAIN lookup.M : state_matrix[x] = lookup.M[x]
             /\ state_machine.es = lookup.G.es
             /\ DOMAIN state_matrix = DOMAIN lookup.M \cup
                    (IF IsValid(lookup.target) THEN {lookup.target} ELSE {})
             /\ Nodes(state_machine) = Nodes(lookup.G) \cup
                    (IF IsValid(lookup.target) THEN {lookup.target} ELSE {})
             /\ \A x \in DOMAIN state_matrix \ DOMAIN lookup.M :
                    \A e \in DOMAIN state_matrix[x] : state_matrix[x][e] = None
        ELSE /\ err = "none"
             /\ state_matrix = lookup.M
             /\ state_machine = lookup.G

\* the error was raised for a target the maze did not have
C31_Witness ==
    /\ SetOnFilled
    /\ err = "RuntimeError"
    /\ lookup.target \notin DOMAIN lookup.M
    /\ lookup.target \in DOMAIN state_matrix

\* the call repeated the recorded target
C31_WitnessSame ==
    /\ SetOnFilled
    /\ lookup.old = lookup.target
    /\ err = "none"
    /\ state_machine.es # <<>>

\* C32: in every reachable state of the Explorer the vertices of the graph
\* are the state names of the maze, and every arrow (s, t, e) of the graph has
\* maze[s].transitions[e] = t; so the graph has at most one arrow per state
\* and event.
C32_GraphMatchesMaze ==
    /\ Nodes(state_machine) = DOMAIN state_matrix
    /\ \A i \in DOMAIN state_machine.es :
          LET a == Arcs(state_machine)[i]
          IN  /\ a.tail \in DOMAIN state_matrix
              /\ a.name \in DOMAIN state_matrix[a.tail]
              /\ state_matrix[a.tail][a.name] = a.head
    /\ \A i, j \in DOMAIN state_machine.es :
          (/\ Arcs(state_machine)[i].tail = Arcs(state_machine)[j].tail
           /\ Arcs(state_machine)[i].name = Arcs(state_machine)[j].name)
              => i = j

\* explore returned with a graph of several vertices in which one state has
\* arrows for two events to the same state
C32_Witness ==
    /\ pc = "done"
    /\ Cardinality(Nodes(state_machine)) > 1
    /\ \E i, j \in DOMAIN state_machine.es :
          /\ i # j
          /\ Arcs(state_machine)[i].tail = Arcs(state_machine)[j].tail
          /\ Arcs(state_machine)[i].head = Arcs(state_machine)[j].head
          /\ Arcs(state_machine)[i].tail # Arcs(state_machine)[i].head

\* C33: _discover fires an event e at a state s only when maze[s][e] is
\* empty, so every slot is the subject of exactly one discovery firing, and
\* when explore returns the number of discovery firings is |S| * |E|.
C33_OneDiscoveryFiringPerSlot ==
    /\ \A c \in DOMAIN fired :
          /\ fired[c] = 1
          /\ c[1] \in DOMAIN state_matrix
          /\ err = "none" => state_matrix[c[1]][c[2]] # None
    /\ \A s \in DOMAIN state_matrix : \A e \in DOMAIN state_matrix[s] :
          state_matrix[s][e] # None => <<s, e>> \in DOMAIN fired
    /\ pc = "done" =>
          SumOver(fired, DOMAIN fired)
              = Cardinality(DOMAIN state_matrix) * Len(event_list)

\* explore returned after several iterations, so events were also fired to
\* replay paths
C33_Witness ==
    /\ pc = "done"
    /\ generation > 1
    /\ Cardinality(DOMAIN state_matrix) > 1
    /\ \E i \in 1..Len(nav.log) : nav.log[i].op = "fire"

\* the walk's entry i + 1 names an edge of the Eulerized working copy that
\* leads from the vertex of entry i to its own vertex
StepIsEdge(i) ==
    \E k \in DOMAIN eul.g.es :
        /\ eul.g.es[k].tail = paths[i][1]
        /\ eul.g.es[k].head = paths[i + 1][1]
        /\ eul.g.es[k].name = paths[i + 1][2]

\* C34: the list EdgeCover.travel returns begins with (start, "") and is a
\* contiguous walk: every later entry (v, e) names an edge e of the Eulerized
\* working copy that leads from the vertex of the entry before it to v.
C34_WalkIsContiguous ==
    EdgeTravelled =>
        /\ paths[1] = <<strategy.start, "">>
        /\ \A i \in 1..(Len(paths) - 1) : StepIsEdge(i)

\* the same when the start vertex is where an Euler walk of the working copy
\* begins
C34_WalkIsContiguousIfStartFits ==
    (EdgeTravelled /\ StartFits) =>
        /\ paths[1] = <<strategy.start, "">>
        /\ \A i \in 1..(Len(paths) - 1) : StepIsEdge(i)

\* eulerize has returned
Eulerized == strategy.kind = "eulerize" /\ pc = "done" /\ eul.done

\* every vertex of G reaches every vertex of G along the edges
StronglyConnected(G) ==
    /\ G.vs # <<>>
    /\ \A i \in DOMAIN G.vs :
          Len(BfsVisit(G, "out", <<G.vs[i]>>, 1)) = Len(G.vs)

\* every vertex of G has as many incoming as outgoing edges
Balanced(G) == \A i \in DOMAIN G.vs : Diff(G, G.vs[i]) = 0

\* C35: for every strongly connected directed multigraph eulerize returns
\* CIRCUIT and leaves every vertex with out-degree equal to in-degree.
C35_StronglyConnectedBecomesCircuit ==
    (Eulerized /\ StronglyConnected(eul.orig))
        => (eul.ret = "CIRCUIT" /\ Balanced(eul.g))

\* C35 amended: for every strongly connected directed multigraph that
\* is_eulerian does not classify PATH eulerize returns CIRCUIT and leaves every
\* vertex with out-degree equal to in-degree; one classified PATH is returned
\* as PATH and left as it is.
C35_StronglyConnectedBecomesCircuitOrStaysPath ==
    (Eulerized /\ StronglyConnected(eul.orig))
        => IF eul.first = "PATH"
           THEN eul.ret = "PATH" /\ eul.g = eul.orig
           ELSE eul.ret = "CIRCUIT" /\ Balanced(eul.g)

\* eulerize balanced a strongly connected graph in more than one round
C35_Witness ==
    /\ Eulerized
    /\ StronglyConnected(eul.orig)
    /\ eul.first = "NONE"
    /\ eul.iter > 1
    /\ eul.ret = "CIRCUIT"

\* C36: eulerize only duplicates existing edges: it never removes an edge
\* or adds a vertex, every edge it adds has the (tail, head, name) of an
\* edge the graph already had, and a graph already classified CIRCUIT or
\* PATH is left unchanged.
C36_EulerizeOnlyDuplicates ==
    (strategy.kind = "eulerize" /\ pc \in {"eulerize", "done"}) =>
        /\ state_machine.vs = eul.orig.vs
        /\ Len(state_machine.es) >= Len(eul.orig.es)
        /\ SubSeq(state_machine.es, 1, Len(eul.orig.es)) = eul.orig.es
        /\ \A i \in DOMAIN state_machine.es :
              EdgeToArrow(state_machine.es[i]) \in Range(Arcs(eul.orig))
        /\ eul.first # "NONE" => state_machine = eul.orig
        /\ eul.done => eul.g = state_machine

\* eulerize returned after it added several edges, in more than one round
C36_Witness ==
    /\ Eulerized
    /\ eul.first = "NONE"
    /\ eul.iter > 1
    /\ Len(state_machine.es) > Len(eul.orig.es) + 2

\* C37: NodeCover.travel terminates on every finite graph: every committed
\* path strictly reduces the number of unvisited vertices, and the loop stops
\* as soon as no valid candidate exists or a step covers no new vertex.
\* The loop is sequential code and one of its two branches can always be taken,
\* so travel terminates when the loop takes finitely many rounds: from some
\* point on no step starts inside the loop.
C37_NodeTravelTerminates ==
    /\ [][(strategy'.kind = "node" /\ paths' # paths)
            => Cardinality(nc'.unvisited) <
                  (IF nc.on THEN Cardinality(nc.unvisited)
                   ELSE Len(state_machine.vs))]_vars
    /\ [][(pc = "loop" /\ pc' = "loop")
            => /\ nc'.path # <<>>
               /\ Cardinality(nc'.unvisited) < Cardinality(nc.unvisited)]_vars
    /\ [][(pc = "loop" /\ nc.unvisited # {} /\ nc.path # <<>>
             /\ ~Valid(Elect(nc, Vid(graph, strategy.start)).cand)
             /\ nc.current \in {-1, Vid(graph, strategy.start)})
            => pc' = "done" /\ paths' = paths]_vars
    /\ <>[][pc # "loop"]_vars

\* travel returned after it committed a path and found no candidate for the
\* vertices that are left
C37_Witness ==
    /\ strategy.kind = "node"
    /\ pc = "done"
    /\ paths # <<>>
    /\ nc.unvisited # {}
    /\ nc.path = <<>>

\* travel returned after it committed paths in several rounds of its loop
C37_WitnessRounds ==
    /\ strategy.kind = "node"
    /\ pc = "done"
    /\ Len(paths) > 1
    /\ nc.unvisited = {}

\* a step of travel that committed a path: the first one or one of the loop
CommitsPath ==
    /\ strategy'.kind = "node"
    /\ nc'.path # <<>>
    /\ \/ pc = "build" /\ pc' = "loop"
       \/ pc = "loop" /\ nc.unvisited # {} /\ nc.path # <<>>

\* C38: every walk in NodeCover's output is a contiguous edge sequence; a new
\* walk is begun exactly when the chosen path does not start at the last
\* visited vertex, and therefore every walk begins at the start vertex.
C38_WalksAreContiguousFromStart ==
    /\ [](strategy.kind = "node" =>
            \A r \in DOMAIN paths :
                /\ paths[r] # <<>>
                /\ paths[r][1].tail = strategy.start
                /\ \A i \in 1..(Len(paths[r]) - 1) :
                       paths[r][i].head = paths[r][i + 1].tail)
    /\ [][CommitsPath =>
            LET last == IF nc.on THEN nc.current ELSE -1
                n == Len(paths)
                steps == Len(nc'.path) - 1
            IN  IF nc'.path[1] # last
                THEN /\ Len(paths') = n + 1
                     /\ SubSeq(paths', 1, n) = paths
                     /\ Len(paths'[n + 1]) = steps
                ELSE /\ Len(paths') = n
                     /\ SubSeq(paths', 1, n - 1) = SubSeq(paths, 1, n - 1)
                     /\ SubSeq(paths'[n], 1, Len(paths[n])) = paths[n]
                     /\ Len(paths'[n]) = Len(paths[n]) + steps]_vars

\* a walk that was continued from the last visited vertex: it comes back to
\* a vertex it has left
C38_Witness ==
    /\ strategy.kind = "node"
    /\ pc = "done"
    /\ \E r \in DOMAIN paths : \E i, j \in DOMAIN paths[r] :
          i < j /\ paths[r][i].tail = paths[r][j].head

\* an output of two walks
C38_WitnessNewWalk ==
    /\ strategy.kind = "node"
    /\ pc = "done"
    /\ Len(paths) > 1

\* the number of edges of G from the vertex named t to the vertex named h
Joining(G, t, h) ==
    Cardinality({k \in DOMAIN G.es : G.es[k].tail = t /\ G.es[k].head = h})

\* C39: NodeCover deletes an edge of its working copy only when more than one
\* parallel edge joins the same ordered vertex pair, so every ordered pair
\* adjacent in the input stays adjacent and every cached simple path remains
\* traversable.
C39_OnlyParallelEdgesDeleted ==
    /\ [][(strategy'.kind = "node" /\ nc.on) =>
            \A t, h \in Range(graph.vs) :
                /\ Joining(graph', t, h) <= Joining(graph, t, h)
                /\ Joining(graph', t, h) < Joining(graph, t, h)
                      => Joining(graph, t, h) > 1]_vars
    /\ [](strategy.kind = "node" =>
            /\ graph.vs = strategy.input.vs
            /\ \A t, h \in Range(graph.vs) :
                   /\ Joining(graph, t, h) <= Joining(strategy.input, t, h)
                   /\ Joining(strategy.input, t, h) > 0 => Joining(graph, t, h) > 0
            /\ \A vid \in DOMAIN nc.cache : \A k \in DOMAIN nc.cache[vid] :
                   \A i \in 1..(Len(nc.cache[vid][k]) - 1) :
                       Adjacent(graph, nc.cache[vid][k][i], nc.cache[vid][k][i + 1]))

\* travel has returned after it deleted an edge and kept a path in its cache
C39_Witness ==
    /\ strategy.kind = "node"
    /\ pc = "done"
    /\ Len(graph.es) < Len(strategy.input.es)
    /\ \E vid \in DOMAIN nc.cache : nc.cache[vid] # <<>>

\* C40: NodeCover.travel never raises because some vertex cannot be reached:
\* for every graph and every start vertex in it, including a start vertex with
\* no outgoing edges, travel returns normally and reports the unreachable
\* vertices only through unvisited_nodes.
C40_TravelNeverRaises ==
    strategy.kind = "node" => (pc # "raised" /\ err = "none")

\* travel raises only when no edge leaves the start vertex for another vertex
C40_RaisesOnlyWithoutAPathFromStart ==
    (strategy.kind = "node" /\ pc = "raised") =>
        /\ err = "IndexError"
        /\ paths = <<>>
        /\ \A k \in DOMAIN strategy.input.es :
               strategy.input.es[k].tail = strategy.start
                   => strategy.input.es[k].head = strategy.start

====
